---- MODULE Spec2Model ----
(***************************************************************************)
(* Model of goal_tracker.py: the schedule check of the main loop          *)
(* (current_toronto_game, do_game_about_to_start, start_game), the live    *)
(* score-polling loop, check_scores (the score delta detector) and         *)
(* get_goal_scorer (the goal attribution resolver).                        *)
(*                                                                         *)
(* The program is a single thread.  Its blocking points (a sleep followed  *)
(* by a fetch) are the places where input from the remote feed arrives, so *)
(* each action below runs the code from one fetch up to the next one.      *)
(***************************************************************************)
EXTENDS Integers, Sequences, FiniteSets, TLC

\* ------------------------------------------------------------------ constants

\* Python's None, for the optional fields of the feed (a score, an owning
\* team, a player id).  No score, team id or player id of the feed is negative.
None == -1

TORONTO_TEAM_ID == 10

\* typeCode of a goal event in the play-by-play feed
GOAL_TYPE_CODE == 505

\* get_goal_scorer: `if retry_count > 35`
RETRY_CEILING == 35

\* get_goal_scorer: `if error_count > 5`
ERROR_CEILING == 5

\* seconds; the value start-up gives wait_time
DEFAULT_WAIT_TIME == 60

\* seconds the live loop sleeps after a score check
SCORE_CHECK_INTERVAL == 8

\* get_goal_scorer: `time.sleep(5)` before each fetch
GOAL_POLL_SLEEP == 5

\* goal_tracker_main: `time.sleep(20)` while the game is about to start
ABOUT_TO_START_SLEEP == 20

\* goal_tracker_main: `time.sleep(60*60*8)` when there is no game today
NO_GAME_SLEEP == 28800

\* current_toronto_game: `wait_time = 5 * 60` for a game at most an hour away
SHORT_WAIT_TIME == 300

\* goal_tracker_main: `max_retries = 3` of the roster loop
MAX_RETRIES == 3

\* goal_tracker_main: `time.sleep(10)` after the roster loop
ROSTER_PAUSE == 10

\* goal_tracker_main: `time.sleep(30)` in the live loop's except block
LIVE_ERROR_PAUSE == 30

\* ------------------------------------------------------------------ bounds

\* scores in a snapshot range over 0..MaxScore
MaxScore == 2

\* a play-by-play feed holds at most MaxEvents events; event ids are 1..MaxEvents
MaxEvents == 2

\* sortOrder values range over 1..MaxSortOrder
MaxSortOrder == 2

\* player ids that occur in the feed: one scorer, two assisting players
ScorerIds == {34}
Assist1Ids == {16}
Assist2Ids == {88}

\* ------------------------------------------------------------------ the feed

\* The fields of an event that get_goal_scorer reads besides eventId and
\* sortOrder.  `details` is absent (every field None) on a non-goal event and on
\* a goal event whose details are not populated yet.
NoDetails == [owner |-> None, scorer |-> None, assist1 |-> None, assist2 |-> None]

EventKinds ==
    { [typeCode |-> GOAL_TYPE_CODE + 1, details |-> NoDetails],
      [typeCode |-> GOAL_TYPE_CODE, details |-> NoDetails],
      [typeCode |-> GOAL_TYPE_CODE,
       details |-> [NoDetails EXCEPT !.owner = TORONTO_TEAM_ID - 1]],
      [typeCode |-> GOAL_TYPE_CODE,
       details |-> [NoDetails EXCEPT !.owner = TORONTO_TEAM_ID]] }
    \cup
    { [typeCode |-> GOAL_TYPE_CODE,
       details |-> [owner |-> TORONTO_TEAM_ID, scorer |-> s,
                    assist1 |-> a1, assist2 |-> a2]] :
        s \in ScorerIds, a1 \in Assist1Ids \cup {None}, a2 \in Assist2Ids \cup {None} }

\* The `plays` list of one play-by-play document: the i-th play has eventId i.
FeedsOfLen(n) ==
    { [i \in 1..n |-> [eventId |-> i, sortOrder |-> so[i],
                       typeCode |-> k[i].typeCode, details |-> k[i].details]] :
        so \in [1..n -> 1..MaxSortOrder], k \in [1..n -> EventKinds] }

Feeds == UNION { FeedsOfLen(n) : n \in 0..MaxEvents }

\* ------------------------------------------------------------------ get_goal_scorer: one poll

\* events.sort(key=lambda x: x.get('sortOrder', 0), reverse=True): a stable sort,
\* descending; events with equal sortOrder keep their order in the feed.
\* InsertSorted puts e, which followed every event of `sorted` in the feed,
\* behind the events whose sortOrder is not smaller.
RECURSIVE InsertSorted(_, _)
InsertSorted(e, sorted) ==
    IF sorted = <<>> THEN <<e>>
    ELSE IF Head(sorted).sortOrder >= e.sortOrder
         THEN <<Head(sorted)>> \o InsertSorted(e, Tail(sorted))
         ELSE <<e>> \o sorted

\* A sort that puts the oldest event first.
RECURSIVE SortEventsAscending(_)
SortEventsAscending(events) ==
    IF events = <<>> THEN <<>>
    ELSE LET oldest == CHOOSE i \in DOMAIN events :
                          \A j \in DOMAIN events :
                              \/ events[i].sortOrder < events[j].sortOrder
                              \/ events[i].sortOrder = events[j].sortOrder /\ i <= j
         IN  <<events[oldest]>>
             \o SortEventsAscending([k \in 1..(Len(events) - 1) |->
                                       IF k < oldest THEN events[k] ELSE events[k + 1]])

RECURSIVE SortEvents(_)
SortEvents(events) ==
    IF events = <<>> THEN <<>>
    ELSE InsertSorted(events[Len(events)],
                      SortEvents(SubSeq(events, 1, Len(events) - 1)))

\* What one pass of `for event in events` ends with.
\*   "found":     the return value of get_goal_scorer
\*   "retry":     restart_while_loop = True; break
\*   "exhausted": the for loop ran to its end without a break
NoInfo(status) ==
    [status |-> status, eventId |-> 0, scoringPlayerID |-> None,
     assist1PlayerID |-> None, assist2PlayerID |-> None]

\* `if scoring_player_id:` is false for None and for 0
Truthy(id) == id # None /\ id # 0

\* A scan that has no memory of the goal it returned last.
NeverSameAsMostRecent(most_recent, event) == FALSE

\* `if most_recent_goal_event_id == event.get('eventId')`
SameAsMostRecent(most_recent, event) == most_recent = event.eventId

\* A scan that takes a goal event for resolved only once both assists are in.
ScorerAndAssistsPopulated(details) ==
    Truthy(details.scorer) /\ Truthy(details.assist1) /\ Truthy(details.assist2)

\* `scoring_player_id = ...get('scoringPlayerId')`, `if scoring_player_id:`
ScorerPopulated(details) == Truthy(details.scorer)

\* A scan that, at a tracked-team goal it cannot use (the one returned last, or
\* one without a scorer yet), goes on to the older events.
RECURSIVE ScanEventsFallsBack(_, _)
ScanEventsFallsBack(events, most_recent) ==
    IF events = <<>> THEN NoInfo("exhausted")
    ELSE LET event == Head(events)
         IN  IF event.typeCode = GOAL_TYPE_CODE /\ event.details.owner = None
             THEN NoInfo("retry")
             ELSE IF /\ event.typeCode = GOAL_TYPE_CODE
                     /\ event.details.owner = TORONTO_TEAM_ID
                     /\ ~SameAsMostRecent(most_recent, event)
                     /\ ScorerPopulated(event.details)
                  THEN [status |-> "found",
                        eventId |-> event.eventId,
                        scoringPlayerID |-> event.details.scorer,
                        assist1PlayerID |-> event.details.assist1,
                        assist2PlayerID |-> event.details.assist2]
                  ELSE ScanEventsFallsBack(Tail(events), most_recent)

RECURSIVE ScanEvents(_, _)
ScanEvents(events, most_recent) ==
    IF events = <<>> THEN NoInfo("exhausted")
    ELSE LET event == Head(events)
             scoring_team_id == event.details.owner
         IN  IF event.typeCode = GOAL_TYPE_CODE
             THEN IF scoring_team_id = None
                  THEN NoInfo("retry")
                  ELSE IF scoring_team_id = TORONTO_TEAM_ID
                       THEN IF SameAsMostRecent(most_recent, event)
                            THEN NoInfo("retry")
                            ELSE IF ScorerPopulated(event.details)
                                 THEN [status |-> "found",
                                       eventId |-> event.eventId,
                                       scoringPlayerID |-> event.details.scorer,
                                       assist1PlayerID |-> event.details.assist1,
                                       assist2PlayerID |-> event.details.assist2]
                                 ELSE NoInfo("retry")
                       ELSE ScanEvents(Tail(events), most_recent)
             ELSE ScanEvents(Tail(events), most_recent)

\* ------------------------------------------------------------------ what a poll's feed shows

\* Event i comes before event j once the feed is in descending sortOrder,
\* ties in feed order.
Precedes(feed, i, j) ==
    \/ feed[i].sortOrder > feed[j].sortOrder
    \/ feed[i].sortOrder = feed[j].sortOrder /\ i < j

TorontoGoals(feed) ==
    { i \in DOMAIN feed : /\ feed[i].typeCode = GOAL_TYPE_CODE
                          /\ feed[i].details.owner = TORONTO_TEAM_ID }

UnownedGoals(feed) ==
    { i \in DOMAIN feed : /\ feed[i].typeCode = GOAL_TYPE_CODE
                          /\ feed[i].details.owner = None }

\* The most recent tracked-team goal event of the feed, 0 when it has none.
NewestTorontoGoal(feed) ==
    IF TorontoGoals(feed) = {} THEN 0
    ELSE CHOOSE i \in TorontoGoals(feed) :
            \A j \in TorontoGoals(feed) \ {i} : Precedes(feed, i, j)

\* What the claims about one poll need to know of its feed: the newest
\* tracked-team goal event, and whether a goal event without an owning team
\* is more recent than it.
FeedView(feed) ==
    LET n == NewestTorontoGoal(feed)
    IN  IF n = 0
        THEN [newestId |-> 0, scorer |-> None, assist1 |-> None, assist2 |-> None,
              unownedNewer |-> UnownedGoals(feed) # {}]
        ELSE [newestId |-> feed[n].eventId,
              scorer   |-> feed[n].details.scorer,
              assist1  |-> feed[n].details.assist1,
              assist2  |-> feed[n].details.assist2,
              unownedNewer |-> \E j \in UnownedGoals(feed) : Precedes(feed, j, n)]

NoView ==
    [newestId |-> 0, scorer |-> None, assist1 |-> None, assist2 |-> None,
     unownedNewer |-> FALSE]

\* For each value of most_recent_goal_event_id, what the polls of all feeds give:
\* the view of the feed and the result of sorting and scanning it.  The poll
\* action draws a feed; its successor state depends on the feed through this
\* pair only.
PollTable ==
    [mr \in 0..MaxEvents |->
        { [view |-> FeedView(f), info |-> ScanEvents(SortEvents(f), mr)] : f \in Feeds }]

\* ------------------------------------------------------------------ state

VARIABLES
    pc,                         \* where the main thread is: see the actions
    game_is_live,               \* globals of goal_tracker.py
    game_about_to_start,
    game_today,
    toronto_is_home,
    opponent_is_senators,
    toronto_score,
    opponent_score,
    wait_time,
    most_recent_goal_event_id,
    roster,                     \* the player ids that are keys of the roster dict
    startup,                    \* goal_tracker_main's locals of the roster loop
    gameId,                     \* goal_tracker_main's local: 0 stands for None
    retry_count,                \* get_goal_scorer's locals
    error_count,
    goal_scorer_info,           \* check_scores' local: what get_goal_scorer returned
    effects,                    \* history: the side effects of the handler that ran last
    obs,                        \* history: the snapshot the last check_scores call was given
    entry,                      \* history: the last-known values when that call began
    attributed,                 \* history: the event ids get_goal_scorer has returned
    gs_log,                     \* history: the polls of the current get_goal_scorer call
    slept,                      \* history: seconds slept between the last fetch and the next
    sched                       \* history: the last schedule check and the one before it

vars ==
    << pc, game_is_live, game_about_to_start, game_today, toronto_is_home,
       opponent_is_senators, toronto_score, opponent_score, wait_time,
       most_recent_goal_event_id, roster, startup, gameId, retry_count,
       error_count, goal_scorer_info, effects, obs, entry, attributed, gs_log,
       slept, sched >>

\* ------------------------------------------------------------------ side effects

\* play_sounds(sound_files): one blocking call that plays the cues in order
PlaySounds(cues) == [kind |-> "play_sounds", cues |-> cues]

\* activate_goal_light(message): one POST to the goal-light webhook
ActivateGoalLight == [kind |-> "activate_goal_light", cues |-> <<"TORONTO GOAL!">>]

\* the call get_goal_scorer(gameId, False) made by check_scores
CallGetGoalScorer == [kind |-> "get_goal_scorer", cues |-> <<>>]

\* debug_print_error(message): an error line that check_scores or
\* get_goal_scorer writes to the log
LogError(message) == [kind |-> "debug_print_error", cues |-> <<message>>]

\* how many side effects of a kind are in a sequence of them
CountIn(fired, kind) == Cardinality({ i \in DOMAIN fired : fired[i].kind = kind })

\* how many side effects of a kind the handler that ran last has fired
Count(kind) == Cardinality({ i \in DOMAIN effects : effects[i].kind = kind })

\* roster[player_id]: the lastName the roster dict holds for a key
LastName(id) ==
    CASE id = 34 -> "Matthews"
      [] id = 16 -> "Marner"
      [] id = 88 -> "Nylander"
      [] OTHER   -> "Unknown"

\* ------------------------------------------------------------------ the play-by-play fetch

\* gameState values of a play-by-play document
FeedStates == {"LIVE", "FINAL", "OFF"}

\* get_play_by_play_data returned None
NoData == [ok |-> FALSE, gameState |-> "", home |-> None, away |-> None]

\* the part of a document that check_scores reads
Scores(data) == [ok |-> data.ok, home |-> data.home, away |-> data.away]

\* What the live loop's fetch can return: None, or a document with its gameState
\* and the two score fields, each of which may be missing.
Snapshots ==
    {NoData} \cup
    { [ok |-> TRUE, gameState |-> g, home |-> h, away |-> a] :
        g \in FeedStates, h \in {None} \cup 0..MaxScore, a \in {None} \cup 0..MaxScore }

\* A fetch that takes the game as over when it gets no document.
LiveAfterFetchEndsOnFailure(ok, gameState, live) ==
    IF ~ok \/ gameState = "OFF" THEN FALSE ELSE live

\* A fetch that takes the game as over on gameState 'FINAL' as well.
LiveAfterFetchEndsOnFinal(ok, gameState, live) ==
    IF ok /\ gameState \in {"FINAL", "OFF"} THEN FALSE ELSE live

\* get_play_by_play_data: `if game_state == 'OFF': game_is_live = False`
LiveAfterFetch(ok, gameState, live) ==
    IF ok /\ gameState = "OFF" THEN FALSE ELSE live

\* ------------------------------------------------------------------ check_scores

\* Opponent-scored cues that leave the rival cue out.
OpponentGoalSoundsNoRival(senators) == <<PlaySounds(<<"Boo">>)>>

\* The opponent-scored cues: Boo, and the rival cue when the opponent is Ottawa.
OpponentGoalSounds(senators) ==
    <<PlaySounds(<<"Boo">>)>> \o
    (IF senators THEN <<PlaySounds(<<"BradySucks">>)>> ELSE <<>>)

\* A comparison that also takes an unchanged score for a goal.
ScoreRoseOrEqual(observed, last_known) == observed >= last_known

\* `home_team_score > toronto_score` and its three siblings
ScoreRose(observed, last_known) == observed > last_known

\* A detector whose last-known scores never go down.
ScoreDeltaKeepMax(tracked, opponent, t_score, o_score, senators) ==
    [raised |-> FALSE,
     toronto_goal |-> ScoreRose(tracked, t_score),
     effects |-> IF ScoreRose(opponent, o_score)
                 THEN OpponentGoalSounds(senators) ELSE <<>>,
     toronto_score |-> IF tracked > t_score THEN tracked ELSE t_score,
     opponent_score |-> IF opponent > o_score THEN opponent ELSE o_score]

\* A detector that counts one goal per rise instead of taking the observed score.
ScoreDeltaAccumulate(tracked, opponent, t_score, o_score, senators) ==
    [raised |-> FALSE,
     toronto_goal |-> ScoreRose(tracked, t_score),
     effects |-> IF ScoreRose(opponent, o_score)
                 THEN OpponentGoalSounds(senators) ELSE <<>>,
     toronto_score |-> IF ScoreRose(tracked, t_score) THEN t_score + 1 ELSE tracked,
     opponent_score |-> IF ScoreRose(opponent, o_score) THEN o_score + 1 ELSE opponent]

\* A detector in which a tracked-team goal silences the opponent's cue.
ScoreDeltaOneGoalOnly(tracked, opponent, t_score, o_score, senators) ==
    [raised |-> FALSE,
     toronto_goal |-> ScoreRose(tracked, t_score),
     effects |-> IF ScoreRose(opponent, o_score) /\ ~ScoreRose(tracked, t_score)
                 THEN OpponentGoalSounds(senators) ELSE <<>>,
     toronto_score |-> tracked,
     opponent_score |-> opponent]

\* Lines 572-583 with (tracked, opponent) = (home, away), and lines 585-596 with
\* (tracked, opponent) = (away, home): the two branches of `if toronto_is_home`
\* differ in nothing else.  A rise of the tracked score sets toronto_goal, a
\* rise of the opponent's plays its cues at once, and the last-known scores
\* are replaced by the observed ones.
ScoreDelta(tracked, opponent, t_score, o_score, senators) ==
    [raised |-> FALSE,
     toronto_goal |-> ScoreRose(tracked, t_score),
     effects |-> IF ScoreRose(opponent, o_score)
                 THEN OpponentGoalSounds(senators) ELSE <<>>,
     toronto_score |-> tracked,
     opponent_score |-> opponent]

\* A detector that reads a missing score as 0 and carries on.
ScoresTakenAsZero(data, t_score, o_score) ==
    [raised |-> FALSE,
     toronto_goal |-> FALSE,
     effects |-> <<>>,
     toronto_score |-> 0,
     opponent_score |-> 0]

\* What the try block of check_scores does when it is left by an exception: the
\* except block logs it; no sound was played and no global assigned before it.
\* The two `score is not None` tests have logged a missing score beforehand.
ScoresCaught(data, t_score, o_score) ==
    [raised |-> TRUE,
     toronto_goal |-> FALSE,
     effects |-> (IF data.ok /\ data.home = None
                  THEN <<LogError("Home Team Score not found")>> ELSE <<>>)
                 \o (IF data.ok /\ data.away = None
                     THEN <<LogError("Away Team Score not found")>> ELSE <<>>)
                 \o <<LogError("Unexpected error while checking scores")>>,
     toronto_score |-> t_score,
     opponent_score |-> o_score]

\* A detector that reads the home score as the tracked team's, home or away.
CheckScoresHomeOnly(data, is_home, t_score, o_score, senators) ==
    IF ~data.ok \/ data.home = None \/ data.away = None
    THEN ScoresCaught(data, t_score, o_score)
    ELSE ScoreDelta(data.home, data.away, t_score, o_score, senators)

\* check_scores from its entry to `if toronto_goal:`.  The try block is left by
\* an exception when data is None (data.get raises) and when a score is None
\* (its comparison with an int raises).
CheckScores(data, is_home, t_score, o_score, senators) ==
    LET home_team_score == data.home
        away_team_score == data.away
    IN  IF ~data.ok \/ home_team_score = None \/ away_team_score = None
        THEN ScoresCaught(data, t_score, o_score)
        ELSE IF is_home
             THEN ScoreDelta(home_team_score, away_team_score, t_score, o_score, senators)
             ELSE ScoreDelta(away_team_score, home_team_score, t_score, o_score, senators)

\* A cue sequence that looks every id up in the roster, known or not.
NameSoundsAllIds(info, players) ==
    <<"GoalScoredBy", LastName(info.scoringPlayerID), "Assist",
      LastName(info.assist1PlayerID), LastName(info.assist2PlayerID)>>

\* check_scores after get_goal_scorer returned: the cue sequence that names the
\* scorer and the assists, ids that are no key of the roster left out.
NameSounds(info, players) ==
    <<"GoalScoredBy">>
    \o (IF info.scoringPlayerID \in players
        THEN <<LastName(info.scoringPlayerID)>> ELSE <<>>)
    \o (IF info.assist1PlayerID \in players
        THEN <<"Assist", LastName(info.assist1PlayerID)>> ELSE <<>>)
    \o (IF info.assist2PlayerID \in players
        THEN <<LastName(info.assist2PlayerID)>> ELSE <<>>)

\* The roster loop is over: roster is a dict, after one fetch.
RosterLoaded == [pending |-> FALSE, retry_count |-> 0, fetches |-> 1]

\* the bookkeeping of a get_goal_scorer call that has not polled yet
StartLog ==
    [polls |-> 0, failed |-> 0, streak |-> 0, fetch |-> "", view |-> NoView,
     first |-> 0]

\* how many about-to-start notifications a behaviour follows
MaxAnnounced == 2

\* What is kept of the schedule check before the last one.
NoCheckBefore == [about |-> FALSE, future |-> FALSE, notified |-> 0, delta |-> 0, wait |-> 0]

\* No schedule check has been made.
NoCheck ==
    [branch |-> "", gameState |-> "", timing |-> "", delta |-> 0,
     today |-> FALSE, about |-> FALSE, live |-> FALSE,
     returned |-> 0, wait |-> 0, announced |-> 0, tick |-> 0,
     before |-> NoCheckBefore]

\* activate_goal_light: one POST; a request error or a non-success status is
\* caught as RequestException and logged.  `posted` is whether the POST succeeded.
ActivateGoalLightCall(posted) ==
    IF posted THEN <<ActivateGoalLight>>
    ELSE <<ActivateGoalLight, LogError("Failed to send POST request to webhook")>>

\* A detector that sounds the horn before it fires the goal light.
GoalEffectsHornFirst(posted) ==
    <<PlaySounds(<<"GoalHorn">>)>> \o ActivateGoalLightCall(posted)
    \o <<CallGetGoalScorer>>

\* A detector that stops at a goal light it could not fire.
GoalEffectsStopOnFailure(posted) ==
    IF posted
    THEN ActivateGoalLightCall(posted)
         \o <<PlaySounds(<<"GoalHorn">>), CallGetGoalScorer>>
    ELSE ActivateGoalLightCall(posted)

\* check_scores under `if toronto_goal:`: the goal light, the horn, then the
\* call of get_goal_scorer
GoalEffects(posted) ==
    ActivateGoalLightCall(posted)
    \o <<PlaySounds(<<"GoalHorn">>), CallGetGoalScorer>>

\* A document that is no JSON object (a non-empty array): truthy, so
\* get_play_by_play_data goes on to data.get('gameState'), which raises
\* AttributeError out of get_play_by_play_data.
MalformedData == [ok |-> TRUE, gameState |-> "no object", home |-> None, away |-> None]

FetchRaises(data) == data = MalformedData

\* A live loop that gives the game up when an iteration raises.
LoopErrorEndsLive(live) ==
    [live |-> FALSE, slept |-> LIVE_ERROR_PAUSE,
     effects |-> <<LogError("An error occurred during the game loop")>>]

\* the live loop's `except Exception`: log, sleep 30 s, next iteration
LoopError(live) ==
    [live |-> live, slept |-> LIVE_ERROR_PAUSE,
     effects |-> <<LogError("An error occurred during the game loop")>>]

\* One iteration of `while (game_is_live == True)`: fetch the play-by-play
\* document, run check_scores on it and, unless the tracked team scored, sleep
\* SCORE_CHECK_INTERVAL.  On a tracked-team goal check_scores fires the goal
\* light and the horn and enters get_goal_scorer.
\* `snapshots` are the documents the specification draws; with "gameState" in
\* `record` the history keeps the document's gameState next to its scores, and
\* with "webhook" the goal light's POST may fail.
LiveIteration(record, snapshots) ==
    /\ pc = "live"
    /\ game_is_live
    /\ \E data \in snapshots :
        LET cs == CheckScores(data, toronto_is_home, toronto_score,
                              opponent_score, opponent_is_senators)
            caught == LoopError(game_is_live)
        IN  IF FetchRaises(data)
            THEN
            /\ game_is_live' = caught.live
            /\ effects' = caught.effects
            /\ slept' = caught.slept
            /\ pc' = "live"
            /\ UNCHANGED << obs, entry, toronto_score, opponent_score,
                            goal_scorer_info, gs_log, retry_count, error_count >>
            ELSE
            /\ game_is_live' = LiveAfterFetch(data.ok, data.gameState, game_is_live)
            /\ obs' = IF "gameState" \in record THEN data ELSE Scores(data)
            /\ entry' = [toronto_score |-> toronto_score,
                         opponent_score |-> opponent_score,
                         event_id |-> most_recent_goal_event_id]
            /\ toronto_score' = cs.toronto_score
            /\ opponent_score' = cs.opponent_score
            /\ goal_scorer_info' = NoInfo("unset")
            /\ gs_log' = StartLog
            /\ retry_count' = -1
            /\ error_count' = 0
            /\ IF cs.toronto_goal
               THEN /\ \E posted \in (IF "webhook" \in record
                                     THEN BOOLEAN ELSE {TRUE}) :
                          effects' = cs.effects \o GoalEffects(posted)
                    /\ slept' = GOAL_POLL_SLEEP
                    /\ pc' = "resolve"
               ELSE /\ effects' = cs.effects
                    /\ slept' = SCORE_CHECK_INTERVAL
                    /\ pc' = "live"
    /\ UNCHANGED << game_about_to_start, game_today, toronto_is_home,
                    opponent_is_senators, wait_time, most_recent_goal_event_id,
                    roster, startup, gameId, attributed, sched >>

\* `while (game_is_live == True)` finds the flag cleared: back to the schedule check
LiveLoopExit ==
    /\ pc = "live"
    /\ ~game_is_live
    /\ pc' = "schedule"
    /\ UNCHANGED << game_is_live, game_about_to_start, game_today, toronto_is_home,
                    opponent_is_senators, toronto_score, opponent_score, wait_time,
                    most_recent_goal_event_id, roster, startup, gameId, retry_count,
                    error_count, goal_scorer_info, effects, obs, entry, attributed,
                    gs_log, slept, sched >>

\* ------------------------------------------------------------------ get_goal_scorer

\* gameState values drawn for the documents get_goal_scorer fetches: the function
\* tells "OFF" from the rest, and treats every other value alike.
PollStates == {"LIVE", "OFF"}

\* What the fetch of one poll can return: None ("none"), a document whose plays
\* raise while they are sorted or scanned ("bad": a null sortOrder or details),
\* or a document with a well-formed plays list ("doc").  The view of the feed is
\* kept only where the polls are recorded (keep_log); can_fail says whether the
\* specification draws failed fetches.
PollFetches(most_recent, keep_log, can_fail) ==
    (IF can_fail
     THEN { [data |-> "none", gameState |-> "", view |-> NoView, info |-> NoInfo("unset")] }
     ELSE {})
    \cup
    { [data |-> "bad", gameState |-> g, view |-> NoView, info |-> NoInfo("unset")] :
        g \in PollStates }
    \cup
    { [data |-> "doc", gameState |-> g,
       view |-> IF keep_log THEN p.view ELSE NoView, info |-> p.info] :
        g \in PollStates, p \in PollTable[most_recent] }

\* the iteration that finds retry_count over the ceiling fetches nothing
NoFetch == [data |-> "ceiling", gameState |-> "", view |-> NoView, info |-> NoInfo("unset")]

\* A resolver that allows itself one attempt more.
AttemptsExhaustedLate(retries) == retries > RETRY_CEILING + 1

\* `if retry_count > 35`
AttemptsExhausted(retries) == retries > RETRY_CEILING

\* A resolver that gives up when error_count reaches the ceiling.
FailuresExhaustedAtCeiling(errors) == errors >= ERROR_CEILING

\* `if error_count > 5`
FailuresExhausted(errors) == errors > ERROR_CEILING

\* One iteration of the `while True` in get_goal_scorer's try block, given what
\* its fetch returns.
\*   returns: the function returns in this iteration, with info (status
\*            "found", or None because of "attempts" or "failures")
\*   raised:  the iteration raised: sorting or scanning a malformed document
\* error_count is only ever incremented: a fetch that succeeds leaves it alone.
PollBody(f, retries, errors, live) ==
    LET rc == retries + 1
        fetched_live == LiveAfterFetch(f.data # "none", f.gameState, live)
    IN  IF AttemptsExhausted(rc)
        THEN [returns |-> TRUE, raised |-> FALSE, info |-> NoInfo("attempts"),
              retry_count |-> rc, error_count |-> errors, live |-> live]
        ELSE IF f.data = "none"
        THEN IF FailuresExhausted(errors + 1)
             THEN [returns |-> TRUE, raised |-> FALSE, info |-> NoInfo("failures"),
                   retry_count |-> rc, error_count |-> errors + 1, live |-> live]
             ELSE [returns |-> FALSE, raised |-> FALSE, info |-> NoInfo("unset"),
                   retry_count |-> rc, error_count |-> errors + 1, live |-> live]
        ELSE IF f.data = "bad"
        THEN [returns |-> FALSE, raised |-> TRUE, info |-> NoInfo("unset"),
              retry_count |-> rc, error_count |-> errors, live |-> fetched_live]
        ELSE IF f.info.status = "found"
        THEN [returns |-> TRUE, raised |-> FALSE, info |-> f.info,
              retry_count |-> rc, error_count |-> errors, live |-> fetched_live]
        ELSE [returns |-> FALSE, raised |-> FALSE, info |-> NoInfo("unset"),
              retry_count |-> rc, error_count |-> errors, live |-> fetched_live]

\* The iteration with get_goal_scorer's except blocks around it: what the body
\* raised is logged, and the function returns None ("exception").
PollOutcome(f, retries, errors, live) ==
    LET o == PollBody(f, retries, errors, live)
    IN  IF o.raised
        THEN [o EXCEPT !.returns = TRUE, !.raised = FALSE, !.info = NoInfo("exception")]
        ELSE o

\* the bookkeeping of the call after a poll that was given f: the fetches made,
\* the failed ones, and how many of the latest fetches failed in a row; `first`
\* is left to the poll action
LogPoll(log, f) ==
    [polls  |-> IF f.data = "ceiling" THEN log.polls ELSE log.polls + 1,
     failed |-> IF f.data = "none" THEN log.failed + 1 ELSE log.failed,
     streak |-> IF f.data = "none" THEN log.streak + 1
                ELSE IF f.data = "ceiling" THEN log.streak ELSE 0,
     fetch  |-> f.data,
     view   |-> f.view,
     first  |-> log.first]

\* A detector that plays the name-announcement sequence whatever
\* get_goal_scorer returned.
AfterGetGoalScorerAlwaysNames(info, players) ==
    <<PlaySounds(NameSounds(info, players))>>

\* What check_scores does with the value get_goal_scorer returned: the name cues
\* for a result, an error line for None.
AfterGetGoalScorer(info, players) ==
    IF info.status = "found"
    THEN <<PlaySounds(NameSounds(info, players))>>
    ELSE (IF info.status = "exception"
          THEN <<LogError("An unexpected error occurred")>> ELSE <<>>)
         \o <<LogError("Failed to retrieve goal scorer information")>>

\* One iteration of get_goal_scorer's loop: sleep 5 s, fetch, sort, scan.  When
\* the function returns, check_scores plays the name cues (if it got a result)
\* and returns to the live loop, which sleeps SCORE_CHECK_INTERVAL; an
\* iteration that goes round sleeps 5 s again unless the attempts are used up.  An
\* exception that left get_goal_scorer would end in check_scores' except block.
\* `record` names the history the specification keeps: "polls" (gs_log, the
\* polls of the call), "ids" (attributed, the event ids returned so far) and
\* "first" (in gs_log, the tracked-team goal event that the feed of the call's
\* first poll showed as the most recent, 0 for none).
GetGoalScorerPoll(record, can_fail) ==
    /\ pc = "resolve"
    /\ \E f \in (IF AttemptsExhausted(retry_count + 1)
                 THEN {NoFetch}
                 ELSE PollFetches(most_recent_goal_event_id,
                                  "polls" \in record, can_fail)) :
        LET o == PollOutcome(f, retry_count, error_count, game_is_live)
            found == o.returns /\ o.info.status = "found"
        IN  /\ game_is_live' = o.live
            /\ gs_log' =
                 IF "polls" \in record
                 THEN [LogPoll(gs_log, f) EXCEPT
                          !.first = IF "first" \in record
                                    THEN (IF gs_log.polls = 0 THEN f.view.newestId
                                          ELSE gs_log.first)
                                    ELSE 0]
                 ELSE gs_log
            /\ IF o.raised
               THEN /\ pc' = "live"
                    /\ slept' = SCORE_CHECK_INTERVAL
                    /\ retry_count' = -1
                    /\ error_count' = 0
                    /\ effects' = effects \o
                          <<LogError("Unexpected error while checking scores")>>
                    /\ UNCHANGED << goal_scorer_info, most_recent_goal_event_id,
                                    attributed >>
               ELSE IF o.returns
               THEN /\ pc' = "live"
                    /\ slept' = SCORE_CHECK_INTERVAL
                    /\ goal_scorer_info' = o.info
                    /\ retry_count' = -1
                    /\ error_count' = 0
                    /\ most_recent_goal_event_id' =
                          IF found THEN o.info.eventId ELSE most_recent_goal_event_id
                    /\ attributed' =
                          IF found /\ "ids" \in record
                          THEN attributed \cup {o.info.eventId} ELSE attributed
                    /\ effects' = effects \o AfterGetGoalScorer(o.info, roster)
               ELSE /\ pc' = "resolve"
                    /\ slept' = IF AttemptsExhausted(o.retry_count + 1)
                                THEN 0 ELSE GOAL_POLL_SLEEP
                    /\ retry_count' = o.retry_count
                    /\ error_count' = o.error_count
                    /\ UNCHANGED << goal_scorer_info, most_recent_goal_event_id,
                                    attributed, effects >>
    /\ UNCHANGED << game_about_to_start, game_today, toronto_is_home,
                    opponent_is_senators, toronto_score, opponent_score, wait_time,
                    roster, startup, gameId, obs, entry, sched >>

\* ------------------------------------------------------------------ the schedule check

\* the furthest a start time lies from now, in hours
MaxHours == 2

\* gameState values of a game in the schedule document
ScheduleStates == {"FUT", "PRE", "LIVE", "FINAL", "OFF", "PST", "CAN"}

\* time_delta = start_time - current_time in minutes: every half hour within
\* MaxHours, and the minute before and after it
TimeDeltas ==
    { m \in -(MaxHours * 60 + 1) .. (MaxHours * 60 + 1) : m % 30 \in {0, 1, 29} }

\* the start times within an hour of now, and a minute beyond: the minute
\* before and after now and each hour mark
NearDeltas == { m \in TimeDeltas : m >= -61 /\ m <= 61 /\ m % 60 \in {0, 1, 59} }

\* commonName of the opponent
OpponentNames == {"Senators", "Bruins"}

\* What the schedule fetch can return:
\*   "failed":   get_apiweb_nhl_data returned None
\*   "empty":    a document without game weeks
\*   "otherday": the first game week is not today's
\*   "nogame":   today's games do not include the tracked team
\*   "bad":      the tracked team's game has no startTimeUTC (strptime raises)
\*   "game":     the tracked team's game, with its state and start time
\* with the venue, the opponent, the state and the start time of the tracked
\* team's game drawn from the given sets.
ScheduleDocs(homes, names, states, deltas) ==
    { [kind |-> k, home |-> FALSE, opponent |-> "", gameState |-> "", delta |-> 0, id |-> 0] :
        k \in {"failed", "empty", "otherday", "nogame"} }
    \cup
    { [kind |-> "bad", home |-> h, opponent |-> n, gameState |-> "", delta |-> 0, id |-> 1] :
        h \in homes, n \in names }
    \cup
    { [kind |-> "game", home |-> h, opponent |-> n, gameState |-> g, delta |-> d, id |-> 1] :
        h \in homes, n \in names, g \in states, d \in deltas }

\* notify_game_about_to_start(message): one POST to the notification webhook
NotifyGameAboutToStart ==
    [kind |-> "notify_game_about_to_start", cues |-> <<"Game about to start!">>]

\* Cues that name the home team first.
MatchupCuesHomeFirst(is_home, opponent) ==
    IF is_home THEN <<"Maple_Leafs", "Versus", opponent>>
    ELSE <<opponent, "Versus", "Maple_Leafs">>

\* the three cues that name the match, the visiting team first
MatchupCues(is_home, opponent) ==
    IF is_home THEN <<opponent, "Versus", "Maple_Leafs">>
    ELSE <<"Maple_Leafs", "Versus", opponent>>

\* do_game_about_to_start: sets the flag, sends the notification, plays the cues
DoGameAboutToStart(is_home, opponent) ==
    [about |-> TRUE,
     effects |-> <<NotifyGameAboutToStart,
                   PlaySounds(<<"About_to_start">> \o MatchupCues(is_home, opponent))>>]

\* A schedule check that announces the coming game every time it sees it.
AnnouncesAgain(about) == TRUE

\* `if not game_about_to_start:` before do_game_about_to_start
NotYetAnnounced(about) == ~about

\* A start_game that leaves game_about_to_start as it finds it.
StartGameStaysPrimed(about, is_home, opponent) ==
    [live |-> TRUE, toronto_score |-> 0, opponent_score |-> 0, most_recent |-> 0,
     about |-> about,
     effects |-> IF about
                 THEN <<PlaySounds(<<"Started">> \o MatchupCues(is_home, opponent))>>
                 ELSE <<>>]

\* A start_game that leaves most_recent_goal_event_id as the last game left it.
StartGameKeepsLastGoal(about, is_home, opponent) ==
    [live |-> TRUE, toronto_score |-> 0, opponent_score |-> 0,
     most_recent |-> most_recent_goal_event_id,
     about |-> FALSE,
     effects |-> IF about
                 THEN <<PlaySounds(<<"Started">> \o MatchupCues(is_home, opponent))>>
                 ELSE <<>>]

\* A start_game that plays the game-started cues whatever game_about_to_start is.
StartGameAlwaysCues(about, is_home, opponent) ==
    [live |-> TRUE, toronto_score |-> 0, opponent_score |-> 0, most_recent |-> 0,
     about |-> FALSE,
     effects |-> <<PlaySounds(<<"Started">> \o MatchupCues(is_home, opponent))>>]

\* start_game: the game is live, scores and last goal id are reset; the
\* game-started cues are played, and game_about_to_start cleared, under
\* `if game_about_to_start`.
StartGame(about, is_home, opponent) ==
    [live |-> TRUE, toronto_score |-> 0, opponent_score |-> 0, most_recent |-> 0,
     about |-> IF about THEN FALSE ELSE about,
     effects |-> IF about
                 THEN <<PlaySounds(<<"Started">> \o MatchupCues(is_home, opponent))>>
                 ELSE <<>>]

\* A chain whose stale branch begins at exactly one hour after the start.
ScheduleBranchStaleAtTheHour(gameState, delta) ==
    IF gameState = "PRE" THEN "PRE"
    ELSE IF gameState = "FUT" THEN "FUT"
    ELSE IF delta > 0 THEN "future"
    ELSE IF delta <= -60 /\ gameState # "LIVE" THEN "stale"
    ELSE IF delta < 0 /\ gameState # "LIVE" THEN "started"
    ELSE IF gameState = "LIVE" THEN "LIVE"
    ELSE IF gameState = "PST" THEN "PST"
    ELSE IF gameState = "CAN" THEN "CAN"
    ELSE "unknown"

\* A chain whose started branch takes a LIVE game too.
ScheduleBranchStartedFirst(gameState, delta) ==
    IF gameState = "PRE" THEN "PRE"
    ELSE IF gameState = "FUT" THEN "FUT"
    ELSE IF delta > 0 THEN "future"
    ELSE IF delta < -60 /\ gameState # "LIVE" THEN "stale"
    ELSE IF delta < 0 THEN "started"
    ELSE IF gameState = "LIVE" THEN "LIVE"
    ELSE IF gameState = "PST" THEN "PST"
    ELSE IF gameState = "CAN" THEN "CAN"
    ELSE "unknown"

\* The if/elif chain on gameState and time_delta, in the order of the code.
ScheduleBranch(gameState, delta) ==
    IF gameState = "PRE" THEN "PRE"
    ELSE IF gameState = "FUT" THEN "FUT"
    ELSE IF delta > 0 THEN "future"
    ELSE IF delta < -60 /\ gameState # "LIVE" THEN "stale"
    ELSE IF delta < 0 /\ gameState # "LIVE" THEN "started"
    ELSE IF gameState = "LIVE" THEN "LIVE"
    ELSE IF gameState = "PST" THEN "PST"
    ELSE IF gameState = "CAN" THEN "CAN"
    ELSE "unknown"

\* A wait that is the whole time to the start, not rounded down to the hour.
WaitTimeUnrounded(delta) ==
    IF delta > 60 THEN delta * 60 ELSE SHORT_WAIT_TIME

\* wait_time for a game in the future: timedelta(hours=time_delta.seconds // 3600)
\* when the start is more than an hour away, else 5 minutes.
WaitTime(delta) ==
    IF delta > 60 THEN ((delta * 60) \div 3600) * 3600 ELSE SHORT_WAIT_TIME

\* the globals current_toronto_game reads and writes, as a record
Globals ==
    [today |-> game_today, about |-> game_about_to_start, live |-> game_is_live,
     is_home |-> toronto_is_home, senators |-> opponent_is_senators,
     wait |-> wait_time, toronto_score |-> toronto_score,
     opponent_score |-> opponent_score, most_recent |-> most_recent_goal_event_id,
     returned |-> 0, branch |-> "", effects |-> <<>>]

\* A reset that leaves game_today as it is.
NoGameKeepsToday(g) == [g EXCEPT !.about = FALSE, !.live = FALSE]

\* game_today, game_about_to_start and game_is_live all set to False
NoGame(g) == [g EXCEPT !.today = FALSE, !.about = FALSE, !.live = FALSE]

\* current_toronto_game, given the document its fetch returned and the globals
\* g at its entry: the globals at its return, the game id it returns (0 for
\* None), the branch it took and the side effects it fired.
CurrentTorontoGame(doc, g) ==
    LET seen == [g EXCEPT !.today = TRUE, !.is_home = doc.home,
                          !.senators = (doc.opponent = "Senators")]
        branch == ScheduleBranch(doc.gameState, doc.delta)
        announce == DoGameAboutToStart(doc.home, doc.opponent)
        started == StartGame(seen.about, doc.home, doc.opponent)
        about_to_start ==
            IF NotYetAnnounced(seen.about)
            THEN [seen EXCEPT !.about = announce.about, !.effects = announce.effects,
                              !.returned = doc.id]
            ELSE [seen EXCEPT !.returned = doc.id]
        in_future == [seen EXCEPT !.about = FALSE, !.wait = WaitTime(doc.delta)]
    IN  IF doc.kind = "failed"
        THEN [NoGame(g) EXCEPT !.branch = "failed",
                               !.effects = <<LogError("Failed to retrieve data")>>]
        ELSE IF doc.kind = "empty" THEN [g EXCEPT !.branch = "empty"]
        ELSE IF doc.kind \in {"otherday", "nogame"}
        THEN [NoGame(g) EXCEPT !.branch = doc.kind]
        ELSE IF doc.kind = "bad"
        THEN [NoGame(seen) EXCEPT
                 !.branch = "bad",
                 !.effects = <<LogError("Unexpected error while parsing schedule data")>>]
        ELSE [ CASE branch \in {"PRE", "started"} -> about_to_start
                 [] branch \in {"FUT", "future"} -> in_future
                 [] branch = "stale" -> NoGame(seen)
                 [] branch = "LIVE" ->
                      IF ~seen.live
                      THEN [seen EXCEPT !.live = started.live,
                                        !.toronto_score = started.toronto_score,
                                        !.opponent_score = started.opponent_score,
                                        !.most_recent = started.most_recent,
                                        !.about = started.about,
                                        !.effects = started.effects,
                                        !.returned = doc.id]
                      ELSE [seen EXCEPT !.returned = doc.id]
                 [] branch = "CAN" -> NoGame(seen)
                 [] OTHER -> seen
             EXCEPT !.branch = branch ]

\* A main loop without the check of the returned game id.
MainLoopTrustsGameId(r) ==
    IF r.today
    THEN IF r.live THEN r @@ [slept |-> 0]
         ELSE IF r.about THEN r @@ [slept |-> ABOUT_TO_START_SLEEP]
         ELSE [r EXCEPT !.wait = DEFAULT_WAIT_TIME] @@ [slept |-> r.wait]
    ELSE r @@ [slept |-> NO_GAME_SLEEP]

\* goal_tracker_main from the return of current_toronto_game to the next fetch:
\* the `if game_today` block with its sleeps.  r is what current_toronto_game
\* left; `slept` is the time slept before the next fetch.
MainLoop(r) ==
    IF r.today
    THEN IF r.returned = 0
         THEN NoGame(r) @@ [slept |-> 0]
         ELSE IF r.live THEN r @@ [slept |-> 0]
         ELSE IF r.about THEN r @@ [slept |-> ABOUT_TO_START_SLEEP]
         ELSE [r EXCEPT !.wait = DEFAULT_WAIT_TIME] @@ [slept |-> r.wait]
    ELSE r @@ [slept |-> NO_GAME_SLEEP]

\* the relation between the start time and now
Timing(delta) ==
    IF delta > 0 THEN "later"
    ELSE IF delta = 0 THEN "now"
    ELSE IF delta >= -60 THEN "past" ELSE "long past"

\* One schedule check: current_toronto_game on a fetched document, then the main
\* loop up to its next fetch, which is the schedule's again or, with
\* game_is_live set, the first one of the live loop.
\* `record` names the history the specification keeps: with "delta" the time
\* to the start in minutes, of this check and the one before; with "announced"
\* the number of about-to-start notifications sent so far, in behaviours of at
\* most MaxAnnounced of them; with "tick" a bit that every check flips, so that
\* a check that finds everything as the one before is a step all the same.
\* `docs` are the documents the specification draws.
ScheduleCheck(record, docs) ==
    /\ pc = "schedule"
    /\ "announced" \in record => sched.announced < MaxAnnounced
    /\ \E doc \in docs :
        LET r == CurrentTorontoGame(doc, Globals)
            m == MainLoop(r)
        IN  /\ game_today' = m.today
            /\ game_about_to_start' = m.about
            /\ game_is_live' = m.live
            /\ toronto_is_home' = m.is_home
            /\ opponent_is_senators' = m.senators
            /\ wait_time' = m.wait
            /\ toronto_score' = m.toronto_score
            /\ opponent_score' = m.opponent_score
            /\ most_recent_goal_event_id' = m.most_recent
            /\ gameId' = r.returned
            /\ effects' = r.effects
            /\ slept' = m.slept
            /\ pc' = IF m.live THEN "live" ELSE "schedule"
            /\ entry' = [toronto_score |-> toronto_score,
                         opponent_score |-> opponent_score,
                         event_id |-> most_recent_goal_event_id]
            /\ sched' =
                 [branch |-> r.branch,
                  gameState |-> doc.gameState,
                  timing |-> IF doc.kind = "game" THEN Timing(doc.delta) ELSE "",
                  delta |-> IF "delta" \in record THEN doc.delta ELSE 0,
                  today |-> game_today, about |-> game_about_to_start,
                  live |-> game_is_live,
                  returned |-> r.returned,
                  wait |-> r.wait,
                  announced |->
                      IF "announced" \in record
                      THEN sched.announced
                           + CountIn(r.effects, "notify_game_about_to_start")
                      ELSE 0,
                  tick |-> IF "tick" \in record THEN 1 - sched.tick ELSE 0,
                  before |-> [about |-> sched.branch \in {"PRE", "started"},
                              future |-> sched.branch \in {"FUT", "future"},
                              notified |-> Count("notify_game_about_to_start"),
                              delta |-> sched.delta,
                              wait |-> IF sched.branch \in {"FUT", "future"}
                                       THEN sched.wait ELSE 0]]
    /\ UNCHANGED << roster, startup, retry_count, error_count, goal_scorer_info, obs,
                    attributed, gs_log >>

\* ------------------------------------------------------------------ the roster loop

\* how many calls of get_toronto_roster a behaviour follows
MaxRosterFetches == 5

\* the player ids a roster document can list
RosterIds == {34, 16, 88}

\* What a call of get_toronto_roster can do:
\*   "roster": return the dict built from the document (empty when the document
\*             lists no player)
\*   "none":   return None: the fetch failed, or an exception was caught inside
\*   "raised": raise to the caller
RosterCalls ==
    { [kind |-> "roster", keys |-> k] : k \in SUBSET RosterIds }
    \cup { [kind |-> k, keys |-> {}] : k \in {"none", "raised"} }

\* get_toronto_roster catches Exception in its own try block (676-677), so it
\* returns a dict or None and never raises to the roster loop.
GetTorontoRoster == { c \in RosterCalls : c.kind # "raised" }

\* One iteration of `while roster is None and retry_count < max_retries`, given
\* what the call of get_toronto_roster did and the loop's locals st.
RosterLoopBody(call, st) ==
    CASE call.kind = "roster" ->
           [pending |-> FALSE, retry_count |-> st.retry_count, keys |-> call.keys,
            slept |-> 0, wait |-> wait_time,
            effects |-> IF call.keys = {}
                        THEN <<LogError("get_toronto_roster() returned None")>>
                        ELSE <<>>]
      [] call.kind = "none" ->
           [pending |-> TRUE, retry_count |-> st.retry_count, keys |-> {},
            slept |-> 0, wait |-> wait_time,
            effects |-> <<LogError("get_toronto_roster() returned None")>>]
      [] OTHER ->
           IF st.retry_count + 1 < MAX_RETRIES
           THEN [pending |-> TRUE, retry_count |-> st.retry_count + 1, keys |-> {},
                 slept |-> 30 * (st.retry_count + 1),
                 wait |-> 30 * (st.retry_count + 1),
                 effects |-> <<LogError("Failed to get roster")>>]
           ELSE [pending |-> FALSE, retry_count |-> st.retry_count + 1, keys |-> {},
                 slept |-> 0, wait |-> wait_time,
                 effects |-> <<LogError("Failed to get roster after 3 attempts")>>]

\* One call of get_toronto_roster and the roster loop up to the next fetch: the
\* next call of get_toronto_roster or, when the loop is over, the first
\* schedule fetch of the main loop after the pause of ROSTER_PAUSE seconds.
\* `calls` is what get_toronto_roster can do.
RosterAttempt(calls) ==
    /\ pc = "roster"
    /\ startup.fetches < MaxRosterFetches
    /\ \E call \in calls :
        LET b == RosterLoopBody(call, startup)
            again == b.pending /\ b.retry_count < MAX_RETRIES
        IN  /\ roster' = b.keys
            /\ startup' = [pending |-> b.pending, retry_count |-> b.retry_count,
                           fetches |-> startup.fetches + 1]
            /\ wait_time' = b.wait
            /\ effects' = b.effects
            /\ slept' = IF again THEN b.slept ELSE ROSTER_PAUSE
            /\ pc' = IF again THEN "roster" ELSE "schedule"
    /\ UNCHANGED << game_is_live, game_about_to_start, game_today, toronto_is_home,
                    opponent_is_senators, toronto_score, opponent_score,
                    most_recent_goal_event_id, gameId, retry_count, error_count,
                    goal_scorer_info, obs, entry, attributed, gs_log, sched >>

\* ------------------------------------------------------------------ specifications

\* The state in which start_game leaves the tracker at the top of the live loop.
InitLive ==
    /\ pc = "live"
    /\ game_is_live = TRUE
    /\ game_about_to_start = FALSE
    /\ game_today = TRUE
    /\ toronto_is_home \in BOOLEAN
    /\ opponent_is_senators \in BOOLEAN
    /\ toronto_score = 0
    /\ opponent_score = 0
    /\ wait_time = DEFAULT_WAIT_TIME
    /\ most_recent_goal_event_id = 0
    /\ roster = {34, 16}
    /\ startup = RosterLoaded
    /\ gameId = 1
    /\ retry_count = -1
    /\ error_count = 0
    /\ goal_scorer_info = NoInfo("unset")
    /\ effects = <<>>
    /\ obs = Scores(NoData)
    /\ entry = [toronto_score |-> 0, opponent_score |-> 0, event_id |-> 0]
    /\ attributed = {}
    /\ gs_log = StartLog
    /\ slept = 0
    /\ sched = NoCheck

\* The live loop, every fetch of the resolver answered.
NextLive == LiveIteration({}, Snapshots) \/ GetGoalScorerPoll({}, FALSE) \/ LiveLoopExit

SpecLive == InitLive /\ [][NextLive]_vars

\* The live loop, with the record of the event ids get_goal_scorer has returned.
NextAttribution ==
    LiveIteration({}, Snapshots) \/ GetGoalScorerPoll({"ids"}, FALSE) \/ LiveLoopExit

SpecAttribution == InitLive /\ [][NextAttribution]_vars


\* The documents of a game in its first goals, in every gameState, and None.
PhaseSnapshots ==
    {NoData} \cup
    { [ok |-> TRUE, gameState |-> g, home |-> h, away |-> a] :
        g \in FeedStates, h \in 0..1, a \in 0..1 }

\* The live loop, with the record of the gameState of the last document.
NextPhase ==
    \/ LiveIteration({"gameState"}, PhaseSnapshots)
    \/ GetGoalScorerPoll({}, FALSE)
    \/ LiveLoopExit

SpecPhase == InitLive /\ [][NextPhase]_vars

\* The live loop of a game in its first goals, fed malformed documents too.
NextFaulty ==
    \/ LiveIteration({}, PhaseSnapshots \cup {MalformedData})
    \/ GetGoalScorerPoll({}, FALSE)
    \/ LiveLoopExit

SpecFaulty == InitLive /\ [][NextFaulty]_vars

\* The live loop of a game in its first goals, the goal light's webhook
\* answering or not.
NextWebhook ==
    \/ LiveIteration({"webhook"}, PhaseSnapshots)
    \/ GetGoalScorerPoll({}, FALSE)
    \/ LiveLoopExit

SpecWebhook == InitLive /\ [][NextWebhook]_vars

\* The state in which check_scores enters get_goal_scorer: the tracked team,
\* playing away, has just gone from 0 to 1, the light and the horn have fired,
\* and most_recent_goal_event_id is whatever earlier calls left in it.
InitResolverWith(players) ==
    /\ pc = "resolve"
    /\ game_is_live = TRUE
    /\ game_about_to_start = FALSE
    /\ game_today = TRUE
    /\ toronto_is_home = FALSE
    /\ opponent_is_senators = FALSE
    /\ toronto_score = 1
    /\ opponent_score = 0
    /\ wait_time = DEFAULT_WAIT_TIME
    /\ most_recent_goal_event_id \in 0..MaxEvents
    /\ roster = players
    /\ startup = RosterLoaded
    /\ gameId = 1
    /\ retry_count = -1
    /\ error_count = 0
    /\ goal_scorer_info = NoInfo("unset")
    /\ effects = GoalEffects(TRUE)
    /\ obs = [ok |-> TRUE, home |-> 0, away |-> 1]
    /\ entry = [toronto_score |-> 0, opponent_score |-> 0,
                event_id |-> most_recent_goal_event_id]
    /\ attributed = {}
    /\ gs_log = StartLog
    /\ slept = 0
    /\ sched = NoCheck

InitResolver == InitResolverWith({34, 16})

\* One call of get_goal_scorer, poll by poll, fetches failing or not.
NextResolver == GetGoalScorerPoll({"polls"}, TRUE)

SpecResolver == InitResolver /\ [][NextResolver]_vars

\* The first goal of an away game: check_scores has entered get_goal_scorer
\* with no goal attributed yet.
InitRace == InitResolver /\ most_recent_goal_event_id = 0

\* The documents of the away game once the tracked team has scored its second
\* goal: the game goes on at 0-2.
RaceSnapshots ==
    { d \in Snapshots : d.ok /\ d.gameState = "LIVE" /\ d.home = 0 /\ d.away = 2 }

\* The call for the first goal and the live loop after it, with the record of
\* each call's polls and of the event ids returned so far.
NextRace ==
    \/ LiveIteration({}, RaceSnapshots)
    \/ GetGoalScorerPoll({"polls", "ids", "first"}, FALSE)
    \/ LiveLoopExit

SpecRace == InitRace /\ [][NextRace]_vars

\* One call of get_goal_scorer, every fetch answered, for every roster that
\* get_toronto_roster can have built from RosterIds, the empty one included.
InitNames == \E players \in SUBSET RosterIds : InitResolverWith(players)

NextNames == GetGoalScorerPoll({}, FALSE)

SpecNames == InitNames /\ [][NextNames]_vars

\* What a finished game leaves in toronto_score, opponent_score and
\* most_recent_goal_event_id: a game the tracked team won to nil, with its last
\* goal attributed, and one it lost to nil.
LastGames == { <<MaxScore, 0, MaxEvents>>, <<0, MaxScore, 0>> }

\* The tracker at a schedule check: at start-up, before any game was seen, or
\* after a live loop has ended (LiveLoopExit), which leaves game_today set and
\* the scores and the last goal id of that game in the globals.
InitSchedule ==
    /\ pc = "schedule"
    /\ game_is_live = FALSE
    /\ game_about_to_start = FALSE
    /\ \/ /\ game_today = FALSE
          /\ toronto_is_home = FALSE
          /\ opponent_is_senators = FALSE
          /\ toronto_score = 0
          /\ opponent_score = 0
          /\ most_recent_goal_event_id = 0
          /\ gameId = 0
       \/ /\ game_today = TRUE
          /\ toronto_is_home \in BOOLEAN
          /\ opponent_is_senators \in BOOLEAN
          /\ \E last \in LastGames :
                /\ toronto_score = last[1]
                /\ opponent_score = last[2]
                /\ most_recent_goal_event_id = last[3]
          /\ gameId = 1
    /\ wait_time = DEFAULT_WAIT_TIME
    /\ roster = {34, 16}
    /\ startup = RosterLoaded
    /\ retry_count = -1
    /\ error_count = 0
    /\ goal_scorer_info = NoInfo("unset")
    /\ effects = <<>>
    /\ obs = Scores(NoData)
    /\ entry = [toronto_score |-> toronto_score, opponent_score |-> opponent_score,
                event_id |-> most_recent_goal_event_id]
    /\ attributed = {}
    /\ gs_log = StartLog
    /\ slept = 0
    /\ sched = NoCheck

\* Schedule checks one after the other, up to the one that starts the live
\* loop; the start time is within an hour of now or just beyond.
NextSchedule ==
    ScheduleCheck({}, ScheduleDocs(BOOLEAN, OpponentNames, ScheduleStates, NearDeltas))

SpecSchedule == InitSchedule /\ [][NextSchedule]_vars

\* goal_tracker_main at its first call of get_toronto_roster: the globals
\* initialised, roster None, no attempt counted.
InitRoster ==
    /\ pc = "roster"
    /\ game_is_live = FALSE
    /\ game_about_to_start = FALSE
    /\ game_today = FALSE
    /\ toronto_is_home = FALSE
    /\ opponent_is_senators = FALSE
    /\ toronto_score = 0
    /\ opponent_score = 0
    /\ most_recent_goal_event_id = 0
    /\ gameId = 0
    /\ wait_time = DEFAULT_WAIT_TIME
    /\ roster = {}
    /\ startup = [pending |-> TRUE, retry_count |-> 0, fetches |-> 0]
    /\ retry_count = -1
    /\ error_count = 0
    /\ goal_scorer_info = NoInfo("unset")
    /\ effects = <<>>
    /\ obs = Scores(NoData)
    /\ entry = [toronto_score |-> 0, opponent_score |-> 0, event_id |-> 0]
    /\ attributed = {}
    /\ gs_log = StartLog
    /\ slept = 0
    /\ sched = NoCheck

\* Start-up: the roster loop, then the schedule checks of an away game that is
\* about to start or live.
NextRoster ==
    \/ RosterAttempt(GetTorontoRoster)
    \/ ScheduleCheck({}, ScheduleDocs({FALSE}, {"Bruins"}, {"PRE", "LIVE"}, {-1, 1}))

SpecRoster == InitRoster /\ [][NextRoster]_vars

\* The tracker at start-up: goal_tracker_main has initialised the globals.
InitStartup ==
    /\ InitSchedule
    /\ game_today = FALSE

\* Schedule checks from start-up on, of a home game whose start time is
\* anywhere within MaxHours, with the record of the time to the start of the
\* last two checks.
NextWait ==
    ScheduleCheck({"delta"},
                  ScheduleDocs({TRUE}, {"Bruins"}, {"FUT", "OFF", "LIVE"}, TimeDeltas))

SpecWait == InitStartup /\ [][NextWait]_vars

\* Schedule checks of a home game in every state, its start time within an hour
\* of now or just beyond, with the record of the time to the start.
NextStatus ==
    ScheduleCheck({"delta"},
                  ScheduleDocs({TRUE}, {"Bruins"}, ScheduleStates, NearDeltas))

SpecStatus == InitSchedule /\ [][NextStatus]_vars

\* What the schedule endpoint returns on the day of one away game before it
\* goes live: the game in PRE or FUT, its start time within an hour of now or
\* just beyond, or nothing (the fetch failed).
PreGameDocs ==
    { d \in ScheduleDocs({FALSE}, {"Bruins"}, {"PRE", "FUT"}, NearDeltas) :
        d.kind \in {"game", "failed"} }

\* Schedule checks from start-up on, of one game that has not gone live, with
\* the time to the start and the count of the about-to-start notifications.
NextAnnounce == ScheduleCheck({"announced", "delta"}, PreGameDocs)

SpecAnnounce == InitStartup /\ [][NextAnnounce]_vars

\* What the schedule endpoint returns about the game the live loop has tracked,
\* two hours or so after its start: the same venue and opponent, the game
\* still LIVE or already FINAL or OFF, or nothing (the fetch failed).
SameGameDocs ==
    { d \in ScheduleDocs({toronto_is_home},
                         {IF opponent_is_senators THEN "Senators" ELSE "Bruins"},
                         FeedStates,
                         { t \in TimeDeltas : t < -60 }) :
        d.kind \in {"game", "failed"} }

\* The live loop of a game in its first goals and, once the play-by-play feed
\* has ended it, the schedule checks that follow.
NextGameOver ==
    \/ LiveIteration({"gameState"}, PhaseSnapshots)
    \/ GetGoalScorerPoll({}, FALSE)
    \/ LiveLoopExit
    \/ ScheduleCheck({}, SameGameDocs)

SpecGameOver == InitLive /\ [][NextGameOver]_vars

\* The live loop of a game in its first goals, the resolver's fetches failing
\* or not, and the schedule checks that follow the end of the live loop.
NextFrame ==
    \/ LiveIteration({}, PhaseSnapshots)
    \/ GetGoalScorerPoll({}, TRUE)
    \/ LiveLoopExit
    \/ ScheduleCheck({}, SameGameDocs)

SpecFrame == InitLive /\ [][NextFrame]_vars

\* What the schedule endpoint returns on the day of an away game, from before
\* its start to its end: nothing, a document without the game, or the game in
\* one of its states with a start time a minute either side of now; the
\* game's `id` may be missing from the document.
GameDayDocs ==
    LET listed == ScheduleDocs({FALSE}, {"Bruins"}, {"PRE", "FUT", "LIVE", "OFF"}, {-1, 1})
    IN  listed \cup { [d EXCEPT !.id = 0] : d \in { g \in listed : g.kind = "game" } }

\* The tracker from start-up on: schedule checks, the live loop they start, and
\* the schedule checks after it.
NextGameDay ==
    \/ ScheduleCheck({}, GameDayDocs)
    \/ LiveIteration({}, PhaseSnapshots)
    \/ GetGoalScorerPoll({}, FALSE)
    \/ LiveLoopExit

SpecGameDay == InitStartup /\ [][NextGameDay]_vars

\* The documents of an away game in which the tracked team does not score.
QuietSnapshots == { d \in PhaseSnapshots : d.ok => d.away = 0 }

\* The game day with every schedule check a step of its own and a live loop
\* without tracked-team goals, the main loop taking a step whenever it can.
NextGameDaySteps ==
    \/ ScheduleCheck({"tick"}, GameDayDocs)
    \/ LiveIteration({}, QuietSnapshots)
    \/ LiveLoopExit

FairGameDay ==
    InitStartup /\ [][NextGameDaySteps]_vars /\ WF_vars(NextGameDaySteps)

\* ------------------------------------------------------------------ vocabulary of the claims

\* the snapshot's scores as (tracked, opponent), mapped through toronto_is_home
Tracked(o) == IF toronto_is_home THEN o.home ELSE o.away
Opponent(o) == IF toronto_is_home THEN o.away ELSE o.home

\* the last check_scores call was given a snapshot with both scores present
BothPresent == obs.ok /\ obs.home # None /\ obs.away # None

\* get_goal_scorer returned None
GaveUp == goal_scorer_info.status \in {"attempts", "failures", "exception"}

\* ------------------------------------------------------------------ check_scores claims

\* C1: a snapshot in which the tracked team's score is above its last-known value
\* and the opponent's score is unchanged fires the tracked-team-goal side effect
\* exactly once (one goal light, one horn, one attribution call, whatever the
\* size of the increase), and the last-known scores become the observed ones.
C1_TrackedGoalFiresOnce ==
    (/\ BothPresent
     /\ Tracked(obs) > entry.toronto_score
     /\ Opponent(obs) = entry.opponent_score)
    => /\ Count("activate_goal_light") = 1
       /\ Count("get_goal_scorer") = 1
       /\ SubSeq(effects, 1, 3) =
             <<ActivateGoalLight, PlaySounds(<<"GoalHorn">>), CallGetGoalScorer>>
       /\ toronto_score = Tracked(obs)
       /\ opponent_score = Opponent(obs)

\* C1 witness: the tracked team, playing away, went up by two in one snapshot
C1_Witness ==
    /\ BothPresent
    /\ ~toronto_is_home
    /\ Tracked(obs) = entry.toronto_score + 2
    /\ Opponent(obs) = entry.opponent_score
    /\ Count("activate_goal_light") = 1
    /\ toronto_score = Tracked(obs)

\* C2: a snapshot equal to the last-known scores fires nothing and changes
\* neither the scores nor most_recent_goal_event_id.
C2_SameScoresNoEffect ==
    (/\ BothPresent
     /\ Tracked(obs) = entry.toronto_score
     /\ Opponent(obs) = entry.opponent_score)
    => /\ effects = <<>>
       /\ pc # "resolve"
       /\ toronto_score = entry.toronto_score
       /\ opponent_score = entry.opponent_score
       /\ most_recent_goal_event_id = entry.event_id

\* C2 witness: last-known (2, 1), snapshot (2, 1)
C2_Witness ==
    /\ BothPresent
    /\ entry.toronto_score = 2 /\ entry.opponent_score = 1
    /\ Tracked(obs) = 2 /\ Opponent(obs) = 1
    /\ effects = <<>>

\* C3: a snapshot with a score below its last-known value and none above fires
\* nothing, logs no error, and the lower values become the last-known scores.
C3_DecreaseAccepted ==
    (/\ BothPresent
     /\ Tracked(obs) <= entry.toronto_score
     /\ Opponent(obs) <= entry.opponent_score
     /\ (Tracked(obs) < entry.toronto_score \/ Opponent(obs) < entry.opponent_score))
    => /\ effects = <<>>
       /\ pc # "resolve"
       /\ toronto_score = Tracked(obs)
       /\ opponent_score = Opponent(obs)

\* C3 witness: last-known (2, 1), snapshot (1, 1): an overturned goal
C3_Witness ==
    /\ BothPresent
    /\ entry.toronto_score = 2 /\ entry.opponent_score = 1
    /\ Tracked(obs) = 1 /\ Opponent(obs) = 1
    /\ toronto_score = 1 /\ opponent_score = 1
    /\ effects = <<>>

\* C4: after a check_scores call on a snapshot with both scores present the
\* last-known scores are the observed ones, during and after goal attribution.
C4_ScoresReplaced ==
    BothPresent => /\ toronto_score = Tracked(obs)
                   /\ opponent_score = Opponent(obs)

\* C4 witness: the tracked score rose by two while the opponent's fell, and
\* goal attribution gave up
C4_Witness ==
    /\ BothPresent
    /\ Tracked(obs) = entry.toronto_score + 2
    /\ Opponent(obs) < entry.opponent_score
    /\ GaveUp
    /\ toronto_score = Tracked(obs)
    /\ opponent_score = Opponent(obs)

\* C5: when only the opponent's score rises, the Boo cue is played, the rival
\* cue follows iff opponent_is_senators, and there is no goal light and no goal
\* attribution.
C5_OpponentGoalCues ==
    (/\ BothPresent
     /\ Opponent(obs) > entry.opponent_score
     /\ Tracked(obs) <= entry.toronto_score)
    => /\ effects = IF opponent_is_senators
                    THEN <<PlaySounds(<<"Boo">>), PlaySounds(<<"BradySucks">>)>>
                    ELSE <<PlaySounds(<<"Boo">>)>>
       /\ pc # "resolve"
       /\ goal_scorer_info.status = "unset"

\* C5 witness: the opponent, Ottawa, scored and the tracked team did not
C5_Witness ==
    /\ BothPresent
    /\ opponent_is_senators
    /\ Opponent(obs) > entry.opponent_score
    /\ Tracked(obs) = entry.toronto_score
    /\ effects = <<PlaySounds(<<"Boo">>), PlaySounds(<<"BradySucks">>)>>

\* ------------------------------------------------------------------ get_goal_scorer claims

\* the call of get_goal_scorer that ran last has returned to check_scores
Returned == goal_scorer_info.status \in {"found", "attempts", "failures", "exception"}

\* the last poll fetched a well-formed document
PolledDoc == gs_log.fetch = "doc"

C7_SameGoalNotReturnedAgain ==
    /\ (/\ PolledDoc
        /\ gs_log.view.newestId # 0
        /\ gs_log.view.newestId = entry.event_id)
       => /\ pc = "resolve"
          /\ goal_scorer_info.status = "unset"
          /\ most_recent_goal_event_id = entry.event_id
    /\ goal_scorer_info.status = "found"
       => /\ goal_scorer_info.eventId # entry.event_id
          /\ goal_scorer_info.eventId = gs_log.view.newestId

\* C7 witness: the call has used all its 36 polls, and the last one still showed
\* the recorded event, scorer populated, as the newest tracked-team goal
C7_Witness ==
    /\ pc = "resolve"
    /\ gs_log.polls = 36
    /\ PolledDoc
    /\ gs_log.view.newestId = 2
    /\ entry.event_id = 2
    /\ Truthy(gs_log.view.scorer)
    /\ ~gs_log.view.unownedNewer

\* C8: a poll whose feed shows the newest tracked-team goal event (another
\* event than the one attributed last) with a populated scorer id, and no newer
\* goal event lacking an owning team, is the poll on which get_goal_scorer
\* returns: with that event's scorer, with its assists as the feed has them
\* (absent if unpopulated), the event id recorded; and a call that has
\* succeeded polls no more.
C8_ReturnsOnPopulatedScorer ==
    /\ (/\ PolledDoc
        /\ gs_log.view.newestId \notin {0, entry.event_id}
        /\ Truthy(gs_log.view.scorer)
        /\ ~gs_log.view.unownedNewer)
       => /\ goal_scorer_info.status = "found"
          /\ goal_scorer_info.eventId = gs_log.view.newestId
          /\ goal_scorer_info.scoringPlayerID = gs_log.view.scorer
          /\ goal_scorer_info.assist1PlayerID = gs_log.view.assist1
          /\ goal_scorer_info.assist2PlayerID = gs_log.view.assist2
          /\ most_recent_goal_event_id = gs_log.view.newestId
    /\ goal_scorer_info.status = "found" => pc # "resolve"

\* C8 witness: the call returned on its fourth poll, the second assist absent
C8_Witness ==
    /\ pc = "live"
    /\ gs_log.polls = 4
    /\ goal_scorer_info.status = "found"
    /\ goal_scorer_info.scoringPlayerID = 34
    /\ goal_scorer_info.assist1PlayerID = 16
    /\ goal_scorer_info.assist2PlayerID = None
    /\ gs_log.view.assist2 = None

\* C9: get_goal_scorer terminates whatever the feed does.  Every iteration of
\* its loop either returns or has made one more poll, no call makes more than
\* 36 polls, a call that runs out of attempts has made exactly 36 and returns
\* none, and no exception reaches check_scores.
C9_TerminatesWithinCeiling ==
    /\ [](/\ gs_log.polls <= 36
          /\ pc = "resolve" => gs_log.polls = retry_count + 1
          /\ goal_scorer_info.status = "attempts"
             => gs_log.polls = 36 /\ goal_scorer_info.scoringPlayerID = None
          /\ pc # "resolve" => Returned
          /\ \A i \in DOMAIN effects :
                effects[i] # LogError("Unexpected error while checking scores"))
    /\ [][pc = "resolve"
            => (pc' # "resolve" \/ gs_log'.polls = gs_log.polls + 1)]_vars

\* C9 witness: a call that ran out of attempts after 36 polls, five of them failed
C9_Witness ==
    /\ pc = "live"
    /\ goal_scorer_info.status = "attempts"
    /\ gs_log.polls = 36
    /\ gs_log.failed = ERROR_CEILING

\* C10 as stated: get_goal_scorer gives up because of fetch failures only when
\* more than 5 polls in a row have failed.
C10_ConsecutiveFailures ==
    goal_scorer_info.status = "failures" => gs_log.streak > ERROR_CEILING

\* C10 amended: get_goal_scorer gives up because of fetch failures exactly when
\* the sixth failed poll of the call occurs, consecutive or not: error_count
\* counts all failed polls of the call, and a fetch that succeeds does not
\* reset it.
C10_CumulativeFailures ==
    /\ goal_scorer_info.status = "failures" => gs_log.failed = 6
    /\ pc = "resolve" => /\ error_count = gs_log.failed
                         /\ gs_log.failed <= 5
    /\ (Returned /\ goal_scorer_info.status # "failures") => gs_log.failed <= 5

\* C10 witness: the call gave up on its sixth failed poll, which followed a
\* poll that succeeded
C10_Witness ==
    /\ goal_scorer_info.status = "failures"
    /\ gs_log.failed = 6
    /\ gs_log.streak = 1
    /\ gs_log.polls > 6

\* ------------------------------------------------------------------ schedule-check claims

\* the last schedule check took a branch that announces the coming game
AboutToStart == sched.branch \in {"PRE", "started"}

\* the last schedule check took a branch for a game in the future
InFuture == sched.branch \in {"FUT", "future"}

\* the about-to-start notification and cue sequence, as the last check fired them
Announcements ==
    { i \in DOMAIN effects :
        \/ effects[i].kind = "notify_game_about_to_start"
        \/ effects[i].kind = "play_sounds" /\ effects[i].cues[1] = "About_to_start" }

\* C11: when two consecutive schedule checks both take an about-to-start branch
\* (status PRE, or start time passed less than an hour ago and status neither
\* FUT nor LIVE), the second fires neither the notification nor the cue
\* sequence and the two together fire the notification at most once; a check
\* that takes such a branch after a check that did not fires the notification
\* and the cue sequence exactly once each.
C11_AnnouncedOnce ==
    AboutToStart =>
        /\ game_about_to_start
        /\ IF sched.before.about
           THEN /\ Announcements = {}
                /\ sched.before.notified <= 1
           ELSE /\ ~sched.about
                /\ Count("notify_game_about_to_start") = 1
                /\ Cardinality(Announcements) = 2

\* two about-to-start checks in a row, the first of which announced the game
C11_Witness ==
    /\ AboutToStart
    /\ sched.before.about
    /\ sched.before.notified = 1
    /\ effects = <<>>
    /\ slept = ABOUT_TO_START_SLEEP

\* C12: whenever a schedule check observes the game LIVE while game_is_live is
\* false, start_game sets toronto_score, opponent_score and
\* most_recent_goal_event_id to 0, whatever they held, and game_is_live to true.
C12_LiveResetsScores ==
    (sched.gameState = "LIVE" /\ ~sched.live) =>
        /\ game_is_live
        /\ toronto_score = 0
        /\ opponent_score = 0
        /\ most_recent_goal_event_id = 0

\* a LIVE game whose start time is not later than now: start_game has run on
\* the scores a finished game left behind
C12_Witness ==
    /\ sched.gameState = "LIVE"
    /\ sched.branch = "LIVE"
    /\ ~sched.live
    /\ entry.toronto_score = MaxScore
    /\ entry.event_id = MaxEvents
    /\ game_is_live
    /\ toronto_score = 0
    /\ opponent_score = 0
    /\ most_recent_goal_event_id = 0
    /\ pc = "live"

\* the last schedule check called start_game: the first transition into LIVE
StartedGame == sched.branch = "LIVE" /\ ~sched.live

\* the game-started cue sequences the last check played
StartedCues ==
    { i \in DOMAIN effects :
        effects[i].kind = "play_sounds" /\ effects[i].cues[1] = "Started" }

\* C13 as stated: on the first transition into LIVE the game-started cue
\* sequence is played only if the transition was not primed by ABOUT_TO_START:
\* not played when game_about_to_start was true, played when it was false.
C13_CueOnlyIfNotPrimed ==
    StartedGame => (StartedCues # {} <=> ~sched.about)

\* C13, amended: on the first transition into LIVE the game-started cue
\* sequence is played exactly when game_about_to_start was true at the
\* transition, once, with the cues that name the match; nothing is played when
\* it was false; game_about_to_start is false afterwards.
C13_CueOnlyIfPrimed ==
    StartedGame =>
        /\ ~game_about_to_start
        /\ IF sched.about
           THEN /\ Cardinality(StartedCues) = 1
                /\ Len(effects) = 1
                /\ Len(effects[1].cues) = 4
           ELSE effects = <<>>

\* the game goes LIVE after it was announced as about to start
C13_Witness ==
    /\ StartedGame
    /\ sched.about
    /\ sched.before.about
    /\ StartedCues = {1}
    /\ pc = "live"

\* the last two schedule checks both found the game in the future, the later
\* one nearer to its start
NearerToStart == InFuture /\ sched.before.future /\ sched.delta < sched.before.delta

\* C14 as stated: over schedule checks that find the game in the future, with
\* strictly decreasing time to start, the wait_time current_toronto_game
\* computes is non-increasing, never below 300 s and never above 3600 s.
C14_WaitWithinHour ==
    /\ InFuture => sched.wait >= SHORT_WAIT_TIME /\ sched.wait <= 3600
    /\ NearerToStart => sched.wait <= sched.before.wait

\* C14, amended: the wait_time is non-increasing and never below 300 s; it is
\* 300 s when the start is at most an hour away and otherwise the time to the
\* start rounded down to whole hours, which is at least 3600 s and above it
\* from two hours on.
C14_WaitWholeHours ==
    /\ InFuture =>
          /\ sched.wait >= SHORT_WAIT_TIME
          /\ IF sched.delta > 60
             THEN /\ sched.wait % 3600 = 0
                  /\ sched.wait <= sched.delta * 60
                  /\ sched.wait > sched.delta * 60 - 3600
             ELSE sched.wait = SHORT_WAIT_TIME
    /\ NearerToStart => sched.wait <= sched.before.wait

\* two checks of a game in the future: two hours away, then one hour and a minute
C14_Witness ==
    /\ NearerToStart
    /\ sched.before.wait = 7200
    /\ sched.wait = 3600
    /\ sched.delta = 61

\* C15: while the tracked team's game is in the future (status FUT, or start
\* time later than now), the main loop never busy-polls: after a schedule check
\* it sleeps for the wait_time the check computed, at least 5 minutes, before
\* it fetches the schedule again.
C15_SleepsWhileInFuture ==
    InFuture =>
        /\ slept = sched.wait
        /\ slept >= SHORT_WAIT_TIME

\* C16: a schedule fetch that fails after a game was resolved leaves the phase
\* as it was: game_today, game_about_to_start and game_is_live keep the values
\* they had before the fetch, and the schedule is checked again on the cadence
\* of that phase (after 20 s while the game is about to start), not after the
\* pause for a day without a game.
C16_FailedFetchHoldsPhase ==
    (sched.branch = "failed" /\ sched.today) =>
        /\ game_today = sched.today
        /\ game_about_to_start = sched.about
        /\ game_is_live = sched.live
        /\ slept # NO_GAME_SLEEP
        /\ sched.about => slept = ABOUT_TO_START_SLEEP

\* a fetch that failed while the game was about to start, and the 8-hour pause
C16_Witness ==
    /\ sched.branch = "failed"
    /\ sched.today
    /\ sched.about
    /\ sched.before.about
    /\ ~game_today
    /\ ~game_about_to_start
    /\ slept = NO_GAME_SLEEP

\* ------------------------------------------------------------------ live-loop claims

\* the last check_scores call was given None (and logged the exception)
FetchFailed == ~obs.ok /\ Count("debug_print_error") > 0

\* the handler that ran last wrote to the log and did nothing else
OnlyLogged == \A i \in DOMAIN effects : effects[i].kind = "debug_print_error"

\* C17: in the live loop a play-by-play fetch that returns no data does not end
\* the LIVE phase: game_is_live stays true, the last-known scores and
\* most_recent_goal_event_id are unchanged, no side effect fires, and the loop
\* fetches again after SCORE_CHECK_INTERVAL seconds.
C17_FailedFetchKeepsLive ==
    FetchFailed =>
        /\ game_is_live
        /\ pc = "live"
        /\ toronto_score = entry.toronto_score
        /\ opponent_score = entry.opponent_score
        /\ most_recent_goal_event_id = entry.event_id
        /\ OnlyLogged
        /\ slept = SCORE_CHECK_INTERVAL

\* a failed fetch in a game that stands at (MaxScore, 1) with a goal attributed
C17_Witness ==
    /\ FetchFailed
    /\ game_is_live
    /\ toronto_score = MaxScore
    /\ opponent_score = 1
    /\ most_recent_goal_event_id > 0
    /\ slept = SCORE_CHECK_INTERVAL

\* the last check_scores call was given a document without one of the scores
ScoreMissing == obs.ok /\ (obs.home = None \/ obs.away = None)

\* C18: on a fetched snapshot that lacks the home score or the away score,
\* check_scores fires no side effect, leaves toronto_score, opponent_score and
\* most_recent_goal_event_id as they were and raises nothing to the live loop
\* (which sleeps SCORE_CHECK_INTERVAL as after any check), home or away,
\* whichever score is missing.
C18_MissingScoreSkipped ==
    ScoreMissing =>
        /\ OnlyLogged
        /\ effects # <<>>
        /\ pc # "resolve"
        /\ toronto_score = entry.toronto_score
        /\ opponent_score = entry.opponent_score
        /\ most_recent_goal_event_id = entry.event_id
        /\ slept = SCORE_CHECK_INTERVAL

\* away, the home score missing and the away score above the last-known one
C18_Witness ==
    /\ ScoreMissing
    /\ ~toronto_is_home
    /\ obs.home = None
    /\ obs.away = MaxScore
    /\ entry.toronto_score = 1
    /\ toronto_score = 1
    /\ OnlyLogged

\* ------------------------------------------------------------------ postponed and cancelled games

\* C19: when the schedule reports the tracked team's game as postponed (PST) or
\* cancelled (CAN), whatever the relation of its start time to now, the check
\* returns no game id, leaves game_about_to_start false, fires no about-to-start
\* notification or cue, computes no wait for a game in the future, and the
\* tracker is in NO_GAME_TODAY.
C19_PostponedOrCancelledNoGame ==
    sched.gameState \in {"PST", "CAN"} =>
        /\ sched.returned = 0
        /\ ~game_about_to_start
        /\ Announcements = {}
        /\ ~InFuture
        /\ ~game_today
        /\ ~game_is_live

\* a postponed game whose start time has passed is announced as about to start
C19_Witness ==
    /\ sched.gameState = "PST"
    /\ sched.timing = "past"
    /\ sched.branch = "started"
    /\ sched.returned = 1
    /\ game_about_to_start
    /\ Count("notify_game_about_to_start") = 1
    /\ slept = ABOUT_TO_START_SLEEP

\* ------------------------------------------------------------------ end of the game

\* the gameState of the document the last check_scores call was given
FeedReports(states) == obs.ok /\ obs.gameState \in states

\* C20 as stated: when the play-by-play feed reports the game over, FINAL or
\* OFF, while the tracker is LIVE, game_is_live becomes false.
C20_FinalOrOffEndsLive ==
    FeedReports({"FINAL", "OFF"}) => ~game_is_live

\* C20, amended: gameState OFF clears game_is_live, and the live loop, once the
\* score check (with its scorer polls) is over, does nothing but leave for the
\* schedule check, the flag staying false meanwhile; gameState FINAL, like
\* LIVE, leaves game_is_live true and the loop polling.
C20_OffEndsLive ==
    /\ [](FeedReports({"OFF"}) => ~game_is_live)
    /\ []((FeedReports({"FINAL", "LIVE"}) /\ goal_scorer_info.status = "unset"
              /\ pc # "resolve")
            => game_is_live /\ pc = "live")
    /\ [][ ~game_is_live =>
             /\ ~game_is_live'
             /\ pc = "live" => pc' = "schedule" ]_vars

\* the feed reported OFF with a goal of the home team, and the loop has left
C20_Witness ==
    /\ FeedReports({"OFF"})
    /\ obs.home = 1
    /\ entry.toronto_score = 0
    /\ ~game_is_live
    /\ pc = "schedule"

\* ------------------------------------------------------------------ no game today

\* the last schedule check concluded that there is nothing to track today: the
\* tracked team is not in today's games, or its game is neither PRE, FUT nor
\* LIVE and started more than an hour ago
NothingToTrack == sched.branch \in {"nogame", "otherday", "stale"}

C22_RosterWithinThreeAttempts ==
    /\ pc = "roster" => startup.fetches < MAX_RETRIES
    /\ startup.fetches >= MAX_RETRIES => ~startup.pending

\* five calls of get_toronto_roster have returned None and the loop goes on,
\* no attempt counted and no pause made
C22_Witness ==
    /\ pc = "roster"
    /\ startup.fetches = MaxRosterFetches
    /\ startup.pending
    /\ startup.retry_count = 0
    /\ slept = 0

\* ------------------------------------------------------------------ a bad cycle of the live loop

\* the last iteration of the live loop raised and the loop's except block ran
LoopRaised == effects = LoopError(TRUE).effects

\* C23: an exception raised inside an iteration of the live loop is caught:
\* the loop logs it, pauses LIVE_ERROR_PAUSE (30) seconds and, game_is_live
\* being true as before, runs another iteration; the iteration changes neither
\* the scores nor the last goal id.
C23_BadCycleCaught ==
    /\ [](LoopRaised =>
            /\ pc = "live"
            /\ game_is_live
            /\ slept = LIVE_ERROR_PAUSE
            /\ ENABLED LiveIteration({}, {MalformedData, NoData}))
    /\ [][ LoopRaised' =>
             /\ game_is_live /\ game_is_live'
             /\ toronto_score' = toronto_score
             /\ opponent_score' = opponent_score
             /\ most_recent_goal_event_id' = most_recent_goal_event_id ]_vars

\* an iteration raised in a game that stands at 1 : 1
C23_Witness ==
    /\ LoopRaised
    /\ toronto_score = 1
    /\ opponent_score = 1
    /\ game_is_live
    /\ slept = LIVE_ERROR_PAUSE

\* ------------------------------------------------------------------ the order of a goal's side effects

\* the name-announcement cue sequences among the side effects
NameCues ==
    { i \in DOMAIN effects :
        effects[i].kind = "play_sounds" /\ effects[i].cues[1] = "GoalScoredBy" }

\* C24: on a detected tracked-team goal the side effects come in this order,
\* one of each: goal light, goal horn, the call of get_goal_scorer, and after
\* it the name cues, played only once the attribution has succeeded; while
\* get_goal_scorer polls, no score check is made, and the live loop fetches
\* again only after get_goal_scorer has returned a result or given up.
C24_GoalEffectsInOrder ==
    /\ [](Count("activate_goal_light") > 0 =>
            \E i \in DOMAIN effects :
                /\ i + 2 \in DOMAIN effects
                /\ effects[i] = ActivateGoalLight
                /\ effects[i + 1] = PlaySounds(<<"GoalHorn">>)
                /\ effects[i + 2] = CallGetGoalScorer
                /\ Count("activate_goal_light") = 1
                /\ Count("get_goal_scorer") = 1
                /\ \A j \in NameCues : j = i + 3 /\ j = Len(effects))
    /\ [](NameCues # {} =>
            /\ Count("activate_goal_light") = 1
            /\ pc # "resolve"
            /\ goal_scorer_info.status = "found")
    /\ [](pc = "resolve" => Count("get_goal_scorer") = 1 /\ NameCues = {})
    /\ [][ pc = "resolve" =>
             /\ obs' = obs
             /\ entry' = entry
             /\ toronto_score' = toronto_score
             /\ opponent_score' = opponent_score
             /\ pc' \in {"resolve", "live"}
             /\ pc' = "live" =>
                  \/ goal_scorer_info'.status = "found" /\ NameCues' # {}
                  \/ GaveUp' /\ NameCues' = {} ]_vars

\* a goal whose scorer was found: light, horn, polling and name cues, in order
C24_Witness ==
    /\ Len(effects) = 4
    /\ effects[1] = ActivateGoalLight
    /\ effects[2] = PlaySounds(<<"GoalHorn">>)
    /\ effects[3] = CallGetGoalScorer
    /\ NameCues = {4}
    /\ pc = "live"

\* ------------------------------------------------------------------ a goal without attribution

\* C25: when get_goal_scorer returns None for a detected tracked-team goal, the
\* goal light and the goal horn have been fired, no name-announcement cue is
\* played, nothing is raised (the failure is logged and the live loop sleeps
\* SCORE_CHECK_INTERVAL as after any check), the last-known scores are those of
\* the snapshot and most_recent_goal_event_id is as it was.
C25_NoAttributionHornOnly ==
    GaveUp =>
        /\ pc = "live"
        /\ \E i \in DOMAIN effects :
              /\ effects[i] = ActivateGoalLight
              /\ effects[i + 1] = PlaySounds(<<"GoalHorn">>)
        /\ NameCues = {}
        /\ effects[Len(effects)] = LogError("Failed to retrieve goal scorer information")
        /\ slept = SCORE_CHECK_INTERVAL
        /\ toronto_score = Tracked(obs)
        /\ opponent_score = Opponent(obs)
        /\ most_recent_goal_event_id = entry.event_id

\* get_goal_scorer gave up after its attempts, a goal having been attributed before
C25_Witness ==
    /\ goal_scorer_info.status = "attempts"
    /\ pc = "live"
    /\ Count("activate_goal_light") = 1
    /\ NameCues = {}
    /\ toronto_score = 1
    /\ most_recent_goal_event_id = MaxEvents

\* ------------------------------------------------------------------ the goal light's webhook

\* the places among the side effects where the goal light's POST failed
FailedPosts ==
    { i \in DOMAIN effects :
        effects[i] = LogError("Failed to send POST request to webhook") }

\* C26: a goal-light POST that fails is logged and not sent again, and
\* check_scores goes on: the goal horn is played next, then get_goal_scorer is
\* called; the last-known scores are those of the snapshot, and the live loop
\* is re-entered when the attribution is over.
C26_FailedPostNotFatal ==
    /\ [](\A i \in FailedPosts :
            /\ i > 1 /\ effects[i - 1] = ActivateGoalLight
            /\ i + 2 \in DOMAIN effects
            /\ effects[i + 1] = PlaySounds(<<"GoalHorn">>)
            /\ effects[i + 2] = CallGetGoalScorer
            /\ Count("activate_goal_light") = 1
            /\ toronto_score = Tracked(obs)
            /\ opponent_score = Opponent(obs))
    /\ [][ (FailedPosts # {} /\ pc = "resolve") =>
             /\ pc' \in {"resolve", "live"}
             /\ pc' = "live" =>
                  /\ goal_scorer_info'.status = "found" \/ GaveUp'
                  /\ slept' = SCORE_CHECK_INTERVAL ]_vars

\* the POST failed and the scorer was still found and announced
C26_Witness ==
    /\ FailedPosts = {2}
    /\ effects[3] = PlaySounds(<<"GoalHorn">>)
    /\ effects[4] = CallGetGoalScorer
    /\ NameCues = {5}
    /\ pc = "live"
    /\ game_is_live

\* ------------------------------------------------------------------ the name announcement

\* the cue sequence of the name announcement the last check_scores call played
NameAnnouncement == effects[Len(effects)].cues

\* the ids of the attribution that are keys of the roster
Known == {goal_scorer_info.scoringPlayerID, goal_scorer_info.assist1PlayerID,
          goal_scorer_info.assist2PlayerID} \cap roster

\* C27: in the name-announcement sequence of a resolved goal, every scorer or
\* assist id that is a key of the roster contributes its name cue, an id that
\* is not (an absent assist, an id unknown to the roster, any id when the
\* roster is empty) contributes nothing, and no error is logged.
C27_UnknownIdsOmitted ==
    (goal_scorer_info.status = "found" /\ pc = "live") =>
        /\ NameCues = {Len(effects)}
        /\ NameAnnouncement[1] = "GoalScoredBy"
        /\ \A id \in Known :
              \E i \in DOMAIN NameAnnouncement : NameAnnouncement[i] = LastName(id)
        /\ \A i \in DOMAIN NameAnnouncement :
              \/ NameAnnouncement[i] \in {"GoalScoredBy", "Assist"}
              \/ \E id \in Known : NameAnnouncement[i] = LastName(id)
        /\ Len(NameAnnouncement) =
              1 + Cardinality(Known)
                + (IF goal_scorer_info.assist1PlayerID \in roster THEN 1 ELSE 0)
        /\ Count("debug_print_error") = 0

\* the roster knows the second assist only: scorer and first assist are left out
C27_Witness ==
    /\ goal_scorer_info.status = "found"
    /\ pc = "live"
    /\ roster = {88}
    /\ goal_scorer_info.assist1PlayerID = 16
    /\ goal_scorer_info.assist2PlayerID = 88
    /\ NameAnnouncement = <<"GoalScoredBy", "Nylander">>

\* ------------------------------------------------------------------ one poll of get_goal_scorer

\* the feed of the last poll has a tracked-team goal event that can be
\* attributed: its most recent one is not the one attributed last, has a scorer
\* id, and no more recent goal event lacks an owning team
Attributable ==
    /\ gs_log.view.newestId # 0
    /\ ~gs_log.view.unownedNewer
    /\ gs_log.view.newestId # entry.event_id
    /\ Truthy(gs_log.view.scorer)

\* C28: a poll that fetched a document returns an attribution exactly when the
\* most recent tracked-team goal event of the feed, in descending sortOrder,
\* (a) has no more recent goal event without an owning team before it, (b) is
\* not the event recorded in most_recent_goal_event_id and (c) has its scorer
\* id populated; the attribution is that event's, never an older one's; in
\* every other case the poll returns nothing, records nothing and the call
\* polls again.  Goal events of the opponent have no part in this.
C28_OnlyNewestGoalAttributed ==
    PolledDoc =>
        IF Attributable
        THEN /\ goal_scorer_info.status = "found"
             /\ goal_scorer_info.eventId = gs_log.view.newestId
             /\ goal_scorer_info.scoringPlayerID = gs_log.view.scorer
             /\ most_recent_goal_event_id = gs_log.view.newestId
        ELSE /\ goal_scorer_info.status = "unset"
             /\ pc = "resolve"
             /\ most_recent_goal_event_id = entry.event_id
             /\ NameCues = {}

\* a tracked-team goal that could be attributed stands behind a more recent
\* goal event without an owning team: the poll retries
C28_Witness ==
    /\ PolledDoc
    /\ gs_log.view.unownedNewer
    /\ gs_log.view.newestId \notin {0, entry.event_id}
    /\ Truthy(gs_log.view.scorer)
    /\ goal_scorer_info.status = "unset"
    /\ pc = "resolve"

\* ------------------------------------------------------------------ the phase a schedule check sets

\* C29: a schedule check that observes the tracked team's game with status
\* LIVE leaves game_is_live true and returns the game id, for every relation
\* between the start time and now, a start time later than now included.
C29_LiveObservedIsLive ==
    sched.gameState = "LIVE" =>
        /\ game_is_live
        /\ sched.returned # 0
        /\ pc = "live"

\* a LIVE game with a start time later than now: the check took the branch of a
\* game in the future, returned no game id and the tracker polls the schedule
\* again after the short wait
C29_Witness ==
    /\ sched.gameState = "LIVE"
    /\ sched.timing = "later"
    /\ sched.branch = "future"
    /\ ~game_is_live
    /\ ~game_today
    /\ sched.returned = 0
    /\ slept = 0
    /\ pc = "schedule"

\* the last schedule check saw the tracked team's game and left the tracker
\* about to start: the flag set and the game id returned
PutAboutToStart ==
    /\ sched.timing # ""
    /\ game_about_to_start
    /\ sched.returned # 0

C31_AnnouncedAtMostOnce ==
    sched.announced <= 1

\* PRE, then a check that cleared game_about_to_start (FUT, or a failed fetch),
\* then PRE again: the second notification of the same game
C31_Witness ==
    /\ sched.announced = 2
    /\ sched.gameState = "PRE"
    /\ sched.before.notified = 0
    /\ ~sched.about
    /\ Count("notify_game_about_to_start") = 1
    /\ game_about_to_start

\* the live loop has ended and a schedule check has been made since
CheckedAfterGameOver == sched.branch # ""

\* C32: once the live loop has ended because the play-by-play feed reported the
\* game over, the game is not started again: whatever the schedule checks that
\* follow observe, a LIVE status included, game_is_live stays false, the scores
\* and most_recent_goal_event_id keep the values the game left, and no goal
\* light, horn or attribution call is fired.
C32_GameOverIsTerminal ==
    CheckedAfterGameOver =>
        /\ ~game_is_live
        /\ pc = "schedule"
        /\ toronto_score = entry.toronto_score
        /\ opponent_score = entry.opponent_score
        /\ most_recent_goal_event_id = entry.event_id
        /\ Count("activate_goal_light") = 0
        /\ Count("get_goal_scorer") = 0

\* the game the feed had ended at 1-0 was started again by a schedule check
\* that saw it LIVE, and the first document of the second live loop, still
\* 1-0, fired the goal light and the attribution call for a goal already
\* celebrated
C32_Witness ==
    /\ CheckedAfterGameOver
    /\ sched.gameState = "LIVE"
    /\ ~sched.live
    /\ obs.ok
    /\ obs.gameState = "OFF"
    /\ entry.toronto_score = 0
    /\ toronto_score = 1
    /\ Count("activate_goal_light") = 1
    /\ pc = "resolve"

\* ------------------------------------------------------------------ two goals in one call

\* C33: an event id enters the set of attributed ids only through a poll whose
\* feed shows it as the most recent tracked-team goal event.  So when a second
\* tracked-team goal enters the feed while get_goal_scorer polls for the first,
\* the call returns the newer event, and as long as the feed keeps that order
\* the earlier event is never attributed: C33_Witness is the state in which it
\* has been passed over.
C33_OlderGoalPassedOver ==
    [][ \A id \in 1..MaxEvents :
          (id \notin attributed /\ id \in attributed')
             => /\ gs_log'.fetch = "doc"
                /\ gs_log'.view.newestId = id
                /\ goal_scorer_info'.eventId = id ]_vars

\* the call's first poll showed event 1, not yet attributable, as the most
\* recent tracked-team goal; the last poll's feed shows event 2 as the most
\* recent, and event 2 is what the call returned: event 1 has not been attributed
C33_Witness ==
    /\ pc = "live"
    /\ gs_log.polls >= 2
    /\ gs_log.first = 1
    /\ gs_log.view.newestId = 2
    /\ goal_scorer_info.status = "found"
    /\ goal_scorer_info.eventId = 2
    /\ most_recent_goal_event_id = 2
    /\ attributed = {2}
    /\ toronto_score = 1

\* ------------------------------------------------------------------ the pre-game cues

\* the cue sequences do_game_about_to_start played in the last schedule check
PreGameCues ==
    { effects[i].cues : i \in { j \in DOMAIN effects :
                                  /\ effects[j].kind = "play_sounds"
                                  /\ effects[j].cues[1] = "About_to_start" } }

\* the opponent of the game the last schedule check saw
OpponentName == IF opponent_is_senators THEN "Senators" ELSE "Bruins"

\* C34: the cue sequence of do_game_about_to_start names the visiting team
\* first: about-to-start, opponent, Versus, Maple_Leafs when the tracked team
\* is at home, and about-to-start, Maple_Leafs, Versus, opponent when it is
\* away.
C34_VisitorsNamedFirst ==
    Count("notify_game_about_to_start") > 0 =>
        PreGameCues =
            { IF toronto_is_home
              THEN <<"About_to_start", OpponentName, "Versus", "Maple_Leafs">>
              ELSE <<"About_to_start", "Maple_Leafs", "Versus", OpponentName>> }

\* a home game against Ottawa announced: the Senators are named first
C34_Witness ==
    /\ AboutToStart
    /\ toronto_is_home
    /\ opponent_is_senators
    /\ PreGameCues = {<<"About_to_start", "Senators", "Versus", "Maple_Leafs">>}

\* ------------------------------------------------------------------ who writes most_recent_goal_event_id

\* the step is a return of get_goal_scorer with an attribution
ReturnsAttribution == pc = "resolve" /\ goal_scorer_info'.status = "found"

\* the step is a return of get_goal_scorer with None
ReturnsNone ==
    /\ pc = "resolve"
    /\ pc' = "live"
    /\ goal_scorer_info'.status \in {"attempts", "failures", "exception"}

\* the step is a schedule check that called start_game
CallsStartGame == pc = "schedule" /\ sched'.branch = "LIVE" /\ ~sched'.live

\* C35: most_recent_goal_event_id is written in two places only.  A return of
\* get_goal_scorer with an attribution sets it to the id of the returned event
\* and start_game sets it to 0; a call that gives up (attempt ceiling, failure
\* ceiling, caught exception), a poll that goes round, every check_scores call
\* and every other schedule check leave it as it is.
C35_MostRecentWrittenTwice ==
    [][ /\ ReturnsAttribution =>
            most_recent_goal_event_id' = goal_scorer_info'.eventId
        /\ CallsStartGame => most_recent_goal_event_id' = 0
        /\ ~(ReturnsAttribution \/ CallsStartGame) =>
            most_recent_goal_event_id' = most_recent_goal_event_id ]_vars

\* start_game has put the id of the last attributed goal back to 0
C35_Witness ==
    /\ sched.branch = "LIVE"
    /\ ~sched.live
    /\ entry.event_id # 0
    /\ most_recent_goal_event_id = 0
    /\ game_is_live

\* ------------------------------------------------------------------ both teams score

\* the last score check saw both scores above their last-known values
BothScored ==
    /\ BothPresent
    /\ Tracked(obs) > entry.toronto_score
    /\ Opponent(obs) > entry.opponent_score

\* how many cue sequences the opponent's goal plays: Boo, and the rival cue
\* when the opponent is Ottawa
OpponentCues == IF opponent_is_senators THEN 2 ELSE 1

\* C36: a snapshot in which both scores rose fires both side effects, neither
\* suppressing the other: first the opponent-scored cue (with the rival cue
\* against Ottawa), then the goal light, the goal horn and the attribution
\* call, one of each.
C36_BothGoalsBothEffects ==
    BothScored =>
        /\ Len(effects) >= OpponentCues + 3
        /\ effects[1] = PlaySounds(<<"Boo">>)
        /\ opponent_is_senators => effects[2] = PlaySounds(<<"BradySucks">>)
        /\ effects[OpponentCues + 1] = ActivateGoalLight
        /\ effects[OpponentCues + 2] = PlaySounds(<<"GoalHorn">>)
        /\ effects[OpponentCues + 3] = CallGetGoalScorer
        /\ Count("activate_goal_light") = 1
        /\ Count("get_goal_scorer") = 1
        /\ Cardinality({ i \in DOMAIN effects : effects[i] = PlaySounds(<<"Boo">>) }) = 1

\* a home game against Ottawa in which both teams scored between two score
\* checks: Boo, the rival cue, then the light, the horn and the polling
C36_Witness ==
    /\ BothScored
    /\ toronto_is_home
    /\ opponent_is_senators
    /\ Len(effects) = 5
    /\ effects[2] = PlaySounds(<<"BradySucks">>)
    /\ effects[3] = ActivateGoalLight
    /\ pc = "resolve"

\* ------------------------------------------------------------------ the phase flags

\* C37: wherever the main loop tests its phase flags, after a schedule check
\* and at each iteration of the live loop, game_is_live and game_about_to_start
\* are not both true.
C37_LiveAndAboutExclusive ==
    ~(game_is_live /\ game_about_to_start)

\* an announced game has gone live: start_game set game_is_live, played the
\* game-started cues and cleared game_about_to_start
C37_Witness ==
    /\ StartedGame
    /\ sched.about
    /\ StartedCues # {}
    /\ game_is_live
    /\ ~game_about_to_start
    /\ pc = "live"

\* C39: the live loop runs only with a resolved game id: whenever game_is_live
\* is true at the test of the live loop, the game id that the most recent
\* schedule check returned is not None.
C39_LiveHasGameId ==
    (pc \in {"live", "resolve"} /\ game_is_live) =>
        /\ gameId # 0
        /\ sched.returned = gameId
        /\ sched.branch = "LIVE"

\* the live loop at its test after a schedule check that saw the game LIVE and
\* returned its id
C39_Witness ==
    /\ pc = "live"
    /\ game_is_live
    /\ gameId = 1
    /\ sched.returned = 1
    /\ sched.gameState = "LIVE"
    /\ slept = 0

\* the last schedule check got the document of the game, with its id, LIVE and
\* with a start time not later than now
SawLiveNow ==
    /\ sched.gameState = "LIVE"
    /\ sched.timing \in {"now", "past", "long past"}
    /\ sched.returned # 0

\* the tracker is about to start and waits for its next schedule check
WaitsAboutToStart == pc = "schedule" /\ game_about_to_start

\* C38: the main loop taking its steps, if from some point on every schedule
\* check gets the game LIVE with a start time not in the future, then from
\* about-to-start the tracker gets into the live loop; until then it checks
\* the schedule again every 20 seconds.
C38_AboutToStartGoesLive ==
    /\ [](WaitsAboutToStart => slept = ABOUT_TO_START_SLEEP)
    /\ (<>[][pc = "schedule" => SawLiveNow']_vars)
          => [](WaitsAboutToStart => <>(pc = "live" /\ game_is_live))

\* about to start, 20 seconds slept, the next schedule check due
C38_Witness ==
    /\ WaitsAboutToStart
    /\ sched.gameState = "PRE"
    /\ sched.returned = 1
    /\ slept = ABOUT_TO_START_SLEEP
    /\ ~game_is_live

==============================================================================
